---- MODULE Spec2Model ----
(***************************************************************************)
(* Model of effect-env: the prefix-enforcement policy                      *)
(* (src/services/prefix-enforcement/service.ts), the pipeline orchestrator *)
(* (services/env/service.ts), the source loader                            *)
(* (services/env-loading/helpers.ts), the layer constructors               *)
(* (src/env/layers.ts), schema validation with its report                  *)
(* (src/env/validate.ts), the Env accessors (src/env/service.ts) and       *)
(* redaction (src/env/redact.ts).                                          *)
(*                                                                         *)
(* Strings are sequences of one-character strings, one for each UTF-16     *)
(* code unit; a code unit that cannot be written in a string of this       *)
(* module is written by its name, "U+" and four hexadecimal digits.  Code  *)
(* gives the UTF-16                                                        *)
(* code unit of a character, which is what String.prototype.startsWith and *)
(* the default Array.prototype.sort compare.                               *)
(* An optional value (a `?:` field or an optional argument) is a set with  *)
(* at most one element: {} is undefined, {v} is the value v.               *)
(***************************************************************************)
EXTENDS Integers, Sequences, FiniteSets, TLC

\* ------------------------------------------------------------------------
\* Bounds

\* Largest number of keys held by the two subsets of a ValidationResult
\* together, and by the two key lists of an EnvMeta together.
MaxKeys == 2

\* ------------------------------------------------------------------------
\* Strings

Code ==
    [ c \in {"A", "B", "C", "I", "L", "P", "S", "U", "_"} |->
        CASE c = "A" -> 65 [] c = "B" -> 66 [] c = "C" -> 67 [] c = "I" -> 73
          [] c = "L" -> 76 [] c = "P" -> 80 [] c = "S" -> 83 [] c = "U" -> 85
          [] c = "_" -> 95 ]

\* The keys an environment may hold: "P", "PA", "S".
Keys == { <<"P">>, <<"P", "A">>, <<"S">> }

\* The client prefixes a meta may declare: "" and "P".
Prefixes == { <<>>, <<"P">> }

\* The value every key of a decoded record carries in the enforcement model;
\* enforce reads keys only (Object.keys).
EnvValues == {"secret"}

Some(v) == {v}
None == {}
Get(opt) == CHOOSE v \in opt : TRUE

\* String.prototype.startsWith
StartsWith(key, prefix) ==
    /\ Len(prefix) <= Len(key)
    /\ \A i \in 1..Len(prefix) : key[i] = prefix[i]

\* a < b in the order of the default sort: code units, left to right, a
\* proper prefix first.
RECURSIVE StrLess(_, _)
StrLess(a, b) ==
    IF b = <<>> THEN FALSE
    ELSE IF a = <<>> THEN TRUE
    ELSE IF Code[Head(a)] # Code[Head(b)] THEN Code[Head(a)] < Code[Head(b)]
    ELSE StrLess(Tail(a), Tail(b))

\* Array.prototype.join
RECURSIVE Join(_, _)
Join(keys, sep) ==
    IF keys = <<>> THEN <<>>
    ELSE IF Len(keys) = 1 THEN keys[1]
    ELSE keys[1] \o sep \o Join(Tail(keys), sep)

\* ------------------------------------------------------------------------
\* Prefix enforcement

\* overrides?.field ?? meta.field, for each field
resolveMeta(meta, overrides) ==
    [ serverKeys   |-> IF overrides = None \/ Get(overrides).serverKeys = None
                       THEN meta.serverKeys ELSE Get(Get(overrides).serverKeys),
      clientKeys   |-> IF overrides = None \/ Get(overrides).clientKeys = None
                       THEN meta.clientKeys ELSE Get(Get(overrides).clientKeys),
      clientPrefix |-> IF overrides = None \/ Get(overrides).clientPrefix = None
                       THEN meta.clientPrefix ELSE Get(Get(overrides).clientPrefix) ]

\* uniqueSorted with the comparison of the sort reversed
RECURSIVE uniqueSorted_descending(_)
uniqueSorted_descending(keys) ==
    IF keys = {} THEN <<>>
    ELSE LET m == CHOOSE k \in keys : \A o \in keys \ {k} : StrLess(o, k)
         IN  <<m>> \o uniqueSorted_descending(keys \ {m})

\* Array.from(new Set(keys)).sort()
RECURSIVE uniqueSorted(_)
uniqueSorted(keys) ==
    IF keys = {} THEN <<>>
    ELSE LET m == CHOOSE k \in keys : \A o \in keys \ {k} : StrLess(k, o)
         IN  <<m>> \o uniqueSorted(keys \ {m})

\* serverViolations without the default-deny rule
serverViolations_noDefaultDeny(env, meta) ==
    uniqueSorted({ key \in DOMAIN env :
        \/ key \in meta.clientKeys
        \/ (Len(meta.clientPrefix) > 0 /\ StartsWith(key, meta.clientPrefix)) })

serverViolations(env, meta) ==
    uniqueSorted({ key \in DOMAIN env :
        \/ key \in meta.clientKeys
        \/ key \notin meta.serverKeys
        \/ (Len(meta.clientPrefix) > 0 /\ StartsWith(key, meta.clientPrefix)) })

\* clientViolations that looks at the prefix only
clientViolations_prefixOnly(env, meta) ==
    uniqueSorted({ key \in DOMAIN env :
        Len(meta.clientPrefix) > 0 /\ ~StartsWith(key, meta.clientPrefix) })

clientViolations(env, meta) ==
    uniqueSorted({ key \in DOMAIN env :
        \/ key \notin meta.clientKeys
        \/ (Len(meta.clientPrefix) > 0 /\ ~StartsWith(key, meta.clientPrefix)) })

\* The message is the banner followed by the joined keys.
buildMessage(mode, keys) ==
    IF mode = "server"
    THEN [banner |-> "Server mode forbids these keys: ", keys |-> Join(keys, <<",", " ">>)]
    ELSE [banner |-> "Client mode forbids these keys: ", keys |-> Join(keys, <<",", " ">>)]

\* enforce that examines the subset of the other mode
enforce_otherSubset(config, result, options) ==
    LET meta == resolveMeta(config.meta, options.metaOverride)
        mode == IF options.isServer THEN "server" ELSE "client"
        env  == IF options.isServer THEN result.client ELSE result.server
        violations == IF options.isServer
                      THEN serverViolations(env, meta)
                      ELSE clientViolations(env, meta)
    IN  IF Len(violations) > 0
        THEN [ tag |-> "Failure",
               error |-> [ _tag |-> "PrefixError", mode |-> mode, keys |-> violations,
                           message |-> buildMessage(mode, violations) ] ]
        ELSE [ tag |-> "Success", value |-> result ]

\* enforce that returns only the subset it examined
enforce_checkedOnly(config, result, options) ==
    LET meta == resolveMeta(config.meta, options.metaOverride)
        mode == IF options.isServer THEN "server" ELSE "client"
        env  == IF options.isServer THEN result.server ELSE result.client
        violations == IF options.isServer
                      THEN serverViolations(env, meta)
                      ELSE clientViolations(env, meta)
    IN  IF Len(violations) > 0
        THEN [ tag |-> "Failure",
               error |-> [ _tag |-> "PrefixError", mode |-> mode, keys |-> violations,
                           message |-> buildMessage(mode, violations) ] ]
        ELSE [ tag |-> "Success",
               value |-> IF options.isServer
                         THEN [server |-> result.server, client |-> <<>>]
                         ELSE [server |-> <<>>, client |-> result.client] ]

\* enforce that returns the two subsets exchanged
enforce_swapped(config, result, options) ==
    LET meta == resolveMeta(config.meta, options.metaOverride)
        mode == IF options.isServer THEN "server" ELSE "client"
        env  == IF options.isServer THEN result.server ELSE result.client
        violations == IF options.isServer
                      THEN serverViolations(env, meta)
                      ELSE clientViolations(env, meta)
    IN  IF Len(violations) > 0
        THEN [ tag |-> "Failure",
               error |-> [ _tag |-> "PrefixError", mode |-> mode, keys |-> violations,
                           message |-> buildMessage(mode, violations) ] ]
        ELSE [ tag |-> "Success",
               value |-> [server |-> result.client, client |-> result.server] ]

\* enforce that examines both subsets, each under the rule of its side
enforce_bothSubsets(config, result, options) ==
    LET meta == resolveMeta(config.meta, options.metaOverride)
        mode == IF options.isServer THEN "server" ELSE "client"
        onServer == serverViolations(result.server, meta)
        onClient == clientViolations(result.client, meta)
        violations == uniqueSorted({ onServer[i] : i \in 1..Len(onServer) }
                                   \cup { onClient[i] : i \in 1..Len(onClient) })
    IN  IF Len(violations) > 0
        THEN [ tag |-> "Failure",
               error |-> [ _tag |-> "PrefixError", mode |-> mode, keys |-> violations,
                           message |-> buildMessage(mode, violations) ] ]
        ELSE [ tag |-> "Success", value |-> result ]

\* makePrefixEnforcement(config).enforce(result, options), as the Exit of
\* the effect it returns.
enforce(config, result, options) ==
    LET meta == resolveMeta(config.meta, options.metaOverride)
        mode == IF options.isServer THEN "server" ELSE "client"
        env  == IF options.isServer THEN result.server ELSE result.client
        violations == IF options.isServer
                      THEN serverViolations(env, meta)
                      ELSE clientViolations(env, meta)
    IN  IF Len(violations) > 0
        THEN [ tag |-> "Failure",
               error |-> [ _tag |-> "PrefixError", mode |-> mode, keys |-> violations,
                           message |-> buildMessage(mode, violations) ] ]
        ELSE [ tag |-> "Success", value |-> result ]

\* ------------------------------------------------------------------------
\* Inputs of the enforcement model

\* Records over a set of keys.
RecordsOver(ks) == [ks -> EnvValues]

\* Pairs of key sets holding at most MaxKeys keys together.
KeySetPairs ==
    { p \in (SUBSET Keys) \X (SUBSET Keys) :
        Cardinality(p[1]) + Cardinality(p[2]) <= MaxKeys }

ValidationResults ==
    UNION { { [server |-> s, client |-> c] : s \in RecordsOver(p[1]), c \in RecordsOver(p[2]) }
            : p \in KeySetPairs }

Metas ==
    { [serverKeys |-> p[1], clientKeys |-> p[2], clientPrefix |-> pre] :
        p \in KeySetPairs, pre \in Prefixes }

\* Partial<EnvMeta>: every field optional.
OptionalKeySetPairs ==
    { p \in (SUBSET SUBSET Keys) \X (SUBSET SUBSET Keys) :
        /\ Cardinality(p[1]) <= 1 /\ Cardinality(p[2]) <= 1
        /\ (IF p[1] = {} THEN 0 ELSE Cardinality(Get(p[1])))
           + (IF p[2] = {} THEN 0 ELSE Cardinality(Get(p[2]))) <= MaxKeys }

PartialMetas ==
    { [serverKeys |-> p[1], clientKeys |-> p[2], clientPrefix |-> pre] :
        p \in OptionalKeySetPairs, pre \in {None} \cup { Some(x) : x \in Prefixes } }

MetaOverrides == {None} \cup { Some(o) : o \in PartialMetas }

PrefixEnforcementOptions ==
    { [isServer |-> b, metaOverride |-> o] : b \in BOOLEAN, o \in MetaOverrides }

\* ------------------------------------------------------------------------
\* Source loading (services/env-loading/helpers.ts)

\* An EnvSource: kind says what source.load() does: "succeed" returns an
\* effect that succeeds with env, "fail" an effect that fails with an
\* EnvSourceError, "die" an effect that dies with a defect, and "throw"
\* throws before any effect is returned.
Source(name, kind, env) == [name |-> name, kind |-> kind, env |-> env]

\* process.env read through freezeEnv(Object.entries(process.env))
processEnvSource(env) == Source("process.env", "succeed", env)

\* chooseSource that prefers the service's default source to the call's
chooseSource_configFirst(config, options, env) ==
    IF config.defaultSource # None THEN Get(config.defaultSource)
    ELSE IF options # None /\ Get(options).source # None THEN Get(Get(options).source)
    ELSE processEnvSource(env)

\* options?.source ?? config.defaultSource ?? processEnvSource
chooseSource(config, options, env) ==
    IF options # None /\ Get(options).source # None THEN Get(Get(options).source)
    ELSE IF config.defaultSource # None THEN Get(config.defaultSource)
    ELSE processEnvSource(env)

\* loadFromSource without the Effect.try around source.load(): a throw
\* escapes as a defect
loadFromSource_unguarded(source) ==
    CASE source.kind = "throw" ->
           [ tag |-> "Die", defect |-> [_tag |-> "Error", message |-> "boom"] ]
      [] source.kind = "fail" ->
           [ tag |-> "Failure",
             error |-> [ _tag |-> "EnvLoadingError",
                         message |-> <<"Failed to load environment from ", source.name>>,
                         cause |-> [_tag |-> "EnvSourceError", message |-> "source failed"] ] ]
      [] source.kind = "die" ->
           [ tag |-> "Die", defect |-> [_tag |-> "Error", message |-> "defect"] ]
      [] source.kind = "succeed" ->
           [ tag |-> "Success", value |-> source.env ]

\* Exit of loadFromSource(source)
loadFromSource(source) ==
    CASE source.kind = "throw" ->
           [ tag |-> "Failure",
             error |-> [ _tag |-> "EnvLoadingError",
                         message |-> <<"Source ", source.name, " threw while creating load effect">>,
                         cause |-> [_tag |-> "Error", message |-> "boom"] ] ]
      [] source.kind = "fail" ->
           [ tag |-> "Failure",
             error |-> [ _tag |-> "EnvLoadingError",
                         message |-> <<"Failed to load environment from ", source.name>>,
                         cause |-> [_tag |-> "EnvSourceError", message |-> "source failed"] ] ]
      [] source.kind = "die" ->
           [ tag |-> "Die", defect |-> [_tag |-> "Error", message |-> "defect"] ]
      [] source.kind = "succeed" ->
           [ tag |-> "Success", value |-> source.env ]

\* ------------------------------------------------------------------------
\* Validation (services/validation/service.ts)

ROOT_PATH == <<"<", "r", "o", "o", "t", ">">>

\* toMap that keeps an undefined value as the empty string
toMap_coerce(raw) ==
    [ key \in DOMAIN raw |-> IF raw[key] = None THEN "" ELSE Get(raw[key]) ]

\* toMap: entries whose value is undefined are dropped
toMap(raw) ==
    [ key \in { k \in DOMAIN raw : raw[k] # None } |-> Get(raw[key]) ]

\* formatPath: path.join("."), the root marker for an empty path
formatPath(path) ==
    IF Len(path) = 0 THEN ROOT_PATH ELSE Join(path, <<".">>)

\* collectIssues that follows only the first alternative of an Or
RECURSIVE collectIssues_orLeftOnly(_)
collectIssues_orLeftOnly(error) ==
    IF error.op = "And"
    THEN collectIssues_orLeftOnly(error.left) \o collectIssues_orLeftOnly(error.right)
    ELSE IF error.op = "Or"
    THEN collectIssues_orLeftOnly(error.left)
    ELSE IF error.op \in {"MissingData", "InvalidData", "SourceUnavailable", "Unsupported"}
    THEN << [key |-> formatPath(error.path), message |-> error.message] >>
    ELSE <<>>

\* collectIssues: depth-first, left before right
RECURSIVE collectIssues(_)
collectIssues(error) ==
    IF error.op \in {"And", "Or"}
    THEN collectIssues(error.left) \o collectIssues(error.right)
    ELSE IF error.op \in {"MissingData", "InvalidData", "SourceUnavailable", "Unsupported"}
    THEN << [key |-> formatPath(error.path), message |-> error.message] >>
    ELSE <<>>

\* options?.compiled ?? config.compiled
chooseCompiled(config, options) ==
    IF options # None /\ Get(options).compiled # None
    THEN Get(Get(options).compiled)
    ELSE config.compiled

\* provider.load(program) for a program built as
\* Config.map(Config.all({k: Config.string(k), ...}), split): every key the
\* program lists is read from the map; the ones that are absent fail with
\* MissingData, combined left to right with And.
RECURSIVE andAll(_)
andAll(errors) ==
    IF Len(errors) = 1 THEN errors[1]
    ELSE [ op |-> "And",
           left |-> andAll(SubSeq(errors, 1, Len(errors) - 1)),
           right |-> errors[Len(errors)] ]

missingData(key) ==
    [ op |-> "MissingData", path |-> <<key>>,
      message |-> <<"Expected ", key, " to exist in the provided map">> ]

SeqRange(s) == { s[i] : i \in 1..Len(s) }

providerLoad(program, map) ==
    LET reads  == program.server \o program.client
        absent == SelectSeq(reads, LAMBDA k : k \notin DOMAIN map)
    IN  IF Len(absent) > 0
        THEN [ tag |-> "Failure",
               error |-> andAll([ i \in 1..Len(absent) |-> missingData(absent[i]) ]) ]
        ELSE [ tag |-> "Success",
               value |-> [ server |-> [ k \in SeqRange(program.server) |-> map[k] ],
                           client |-> [ k \in SeqRange(program.client) |-> map[k] ] ] ]

\* decode: failures are mapped to a ValidationError
decode(compiled, raw) ==
    LET loaded == providerLoad(compiled.program, toMap(raw))
    IN  IF loaded.tag = "Failure"
        THEN [ tag |-> "Failure",
               error |-> [ _tag |-> "ValidationError",
                           issues |-> collectIssues(loaded.error) ] ]
        ELSE loaded

\* freezeResult with Object.freeze applied to the server copy only
freezeResult_serverOnly(result) ==
    [ server |-> result.server, client |-> result.client, frozen |-> {"server"} ]

\* freezeResult: each subset is copied ({ ...subset }) and the copy frozen;
\* `frozen` names the subsets of the returned result on which
\* Object.isFrozen holds.  A result that did not go through freezeResult
\* has no such field: nothing is known to be frozen.
freezeResult(result) ==
    [ server |-> result.server, client |-> result.client,
      frozen |-> {"server", "client"} ]

\* makeValidation(config).validate(raw, options)
validate(config, raw, options) ==
    LET decoded == decode(chooseCompiled(config, options), raw)
    IN  IF decoded.tag = "Success"
        THEN [ tag |-> "Success", value |-> freezeResult(decoded.value) ]
        ELSE decoded

\* ------------------------------------------------------------------------
\* Orchestrator (services/env/service.ts)

\* mergeMeta that replaces the whole meta once an override is given
mergeMeta_replace(base, override) ==
    IF override = None THEN base
    ELSE [ serverKeys   |-> IF Get(override).serverKeys = None
                            THEN {} ELSE Get(Get(override).serverKeys),
           clientKeys   |-> IF Get(override).clientKeys = None
                            THEN {} ELSE Get(Get(override).clientKeys),
           clientPrefix |-> IF Get(override).clientPrefix = None
                            THEN <<>> ELSE Get(Get(override).clientPrefix) ]

mergeMeta(base, override) ==
    [ serverKeys   |-> IF override = None \/ Get(override).serverKeys = None
                       THEN base.serverKeys ELSE Get(Get(override).serverKeys),
      clientKeys   |-> IF override = None \/ Get(override).clientKeys = None
                       THEN base.clientKeys ELSE Get(Get(override).clientKeys),
      clientPrefix |-> IF override = None \/ Get(override).clientPrefix = None
                       THEN base.clientPrefix ELSE Get(Get(override).clientPrefix) ]

\* { ...(config.loading ?? {}), ...(options?.loading ?? {}) }: the loading
\* layer keeps the service's defaultSource
loadingLayerConfig(config) ==
    IF config.loading = None THEN [defaultSource |-> None] ELSE Get(config.loading)

optionsLoading(options) ==
    IF options = None THEN None ELSE Get(options).loading

optionsValidation(options) ==
    IF options = None THEN None ELSE Get(options).validation

optionsMetaOverride(options) ==
    IF options = None THEN None ELSE Get(options).metaOverride

\* options?.validation?.compiled ? { compiled: ... } : config.validation
validationLayerConfig(config, options) ==
    IF optionsValidation(options) # None /\ Get(optionsValidation(options)).compiled # None
    THEN [ compiled |-> Get(Get(optionsValidation(options)).compiled) ]
    ELSE config.validation

\* config.metaOverride ? mergeMeta(compiled.meta, config.metaOverride) : compiled.meta
baseMeta(config) ==
    IF config.metaOverride # None
    THEN mergeMeta(config.validation.compiled.meta, config.metaOverride)
    ELSE config.validation.compiled.meta

\* The merge that starts from the meta of the compiled program the call
\* decodes with
loadMeta_callCompiled(config, options) ==
    mergeMeta(mergeMeta(validationLayerConfig(config, options).compiled.meta,
                        config.metaOverride),
              optionsMetaOverride(options))

\* const meta = mergeMeta(baseMeta, options?.metaOverride)
loadMeta(config, options) ==
    mergeMeta(baseMeta(config), optionsMetaOverride(options))

\* options?.isServer ?? config.isServer ?? true
loadIsServer(config, options) ==
    IF options # None /\ Get(options).isServer # None THEN Get(Get(options).isServer)
    ELSE IF config.isServer # None THEN Get(config.isServer)
    ELSE TRUE

\* config.prefix ? { ...config.prefix, meta } : { meta }
\* The spread written the other way round, { meta, ...config.prefix }
prefixLayerConfig_prefixLast(config, meta) ==
    IF config.prefix # None /\ Get(config.prefix).meta # None
    THEN [ meta |-> Get(Get(config.prefix).meta) ]
    ELSE [ meta |-> meta ]

prefixLayerConfig(config, meta) ==
    [ meta |-> meta ]

\* makeEnvService(config).load(options) run from its first stage to its
\* return with nothing else running: the Exit of the generator, each yield*
\* ending the call when its effect does not succeed.  env is process.env.
load(config, env, options) ==
    LET loaded == loadFromSource(chooseSource(loadingLayerConfig(config),
                                              optionsLoading(options),
                                              [k \in DOMAIN env |-> Some(env[k])]))
    IN  IF loaded.tag # "Success" THEN loaded
        ELSE
        LET validated == validate(validationLayerConfig(config, options),
                                  loaded.value, optionsValidation(options))
        IN  IF validated.tag # "Success" THEN validated
            ELSE
            LET meta     == loadMeta(config, options)
                isServer == loadIsServer(config, options)
                outcome  == enforce(prefixLayerConfig(config, meta), validated.value,
                                    [isServer |-> isServer,
                                     metaOverride |-> optionsMetaOverride(options)])
            IN  IF outcome.tag # "Success" THEN outcome
                ELSE [ tag |-> "Success",
                       value |-> [ mode |-> IF isServer THEN "server" ELSE "client",
                                   raw |-> loaded.value,
                                   validation |-> outcome.value,
                                   meta |-> meta,
                                   env |-> IF isServer THEN outcome.value.server
                                           ELSE outcome.value.client ] ]

\* ------------------------------------------------------------------------
\* Layer constructors (src/env/layers.ts)

\* "PUBLIC_", the prefix parseEnv uses when options give none
DefaultClientPrefix == <<"P", "U", "B", "L", "I", "C", "_">>

\* options?.clientPrefix ?? "PUBLIC_"
layerClientPrefix(options) ==
    IF options # None /\ Get(options).clientPrefix # None
    THEN Get(Get(options).clientPrefix)
    ELSE DefaultClientPrefix

\* partitionEnv without the `clientPrefix &&` guard
partitionEnv_unguarded(parsed, clientPrefix) ==
    LET toClient == { key \in DOMAIN parsed : StartsWith(key, clientPrefix) }
        server == [ key \in DOMAIN parsed \ toClient |-> parsed[key] ]
        client == [ key \in toClient |-> parsed[key] ]
    IN  [ meta |-> [ serverKeys |-> DOMAIN server, clientKeys |-> DOMAIN client,
                     clientPrefix |-> clientPrefix ],
          validationResult |-> [ server |-> server, client |-> client ] ]

\* partitionEnv that lists the keys of each record under the other side of
\* the meta
partitionEnv_swappedMeta(parsed, clientPrefix) ==
    LET toClient == { key \in DOMAIN parsed :
                        clientPrefix # <<>> /\ StartsWith(key, clientPrefix) }
        server == [ key \in DOMAIN parsed \ toClient |-> parsed[key] ]
        client == [ key \in toClient |-> parsed[key] ]
    IN  [ meta |-> [ serverKeys |-> DOMAIN client, clientKeys |-> DOMAIN server,
                     clientPrefix |-> clientPrefix ],
          validationResult |-> [ server |-> server, client |-> client ] ]

\* partitionEnv: `clientPrefix && key.startsWith(clientPrefix)` sends a key
\* to the client record, anything else to the server record
partitionEnv(parsed, clientPrefix) ==
    LET toClient == { key \in DOMAIN parsed :
                        clientPrefix # <<>> /\ StartsWith(key, clientPrefix) }
        server == [ key \in DOMAIN parsed \ toClient |-> parsed[key] ]
        client == [ key \in toClient |-> parsed[key] ]
    IN  [ meta |-> [ serverKeys |-> DOMAIN server, clientKeys |-> DOMAIN client,
                     clientPrefix |-> clientPrefix ],
          validationResult |-> [ server |-> server, client |-> client ] ]

\* enforcePrefixes: server mode, then client mode, on the same result
enforcePrefixes(config, validationResult) ==
    LET first == enforce(config, validationResult, [isServer |-> TRUE, metaOverride |-> None])
    IN  IF first.tag = "Failure" THEN first
        ELSE enforce(config, validationResult, [isServer |-> FALSE, metaOverride |-> None])

\* ------------------------------------------------------------------------
\* Schema validation with a report (src/env/validate.ts)
\*
\* Texts are sequences of characters.  The branch glyphs of the error tree,
\* U+2514 and U+2500, are written "L" and "-": one character each, as in the
\* text the code measures and cuts.

\* 'is missing'
TextIsMissing ==
    <<"i", "s", " ", "m", "i", "s", "s", "i", "n", "g">>

\* 'is required'
TextIsRequired ==
    <<"i", "s", " ", "r", "e", "q", "u", "i", "r", "e", "d">>

\* 'Expected'
TextExpected ==
    <<"E", "x", "p", "e", "c", "t", "e", "d">>

\* 'actual'
TextActual ==
    <<"a", "c", "t", "u", "a", "l">>

\* 'failure'
TextFailure ==
    <<"f", "a", "i", "l", "u", "r", "e">>

\* 'validation failed'
TextValidationFailed ==
    <<"v", "a", "l", "i", "d", "a", "t", "i", "o", "n", " ", "f", "a", "i",
      "l", "e", "d">>

\* 'required but not provided'
TextRequiredNotProvided ==
    <<"r", "e", "q", "u", "i", "r", "e", "d", " ", "b", "u", "t", " ", "n",
      "o", "t", " ", "p", "r", "o", "v", "i", "d", "e", "d">>

\* '...'
TextEllipsis ==
    <<".", ".", ".">>

\* the line the formatter prints under a key that is missing
LineIsMissing ==
    <<" ", " ", " ", "L", "-", " ", "i", "s", " ", "m", "i", "s", "s", "i",
      "n", "g">>

\* the line the formatter prints under a string field holding undefined
LineExpectedString ==
    <<" ", " ", " ", "L", "-", " ", "E", "x", "p", "e", "c", "t", "e", "d",
      " ", "s", "t", "r", "i", "n", "g", ",", " ", "a", "c", "t", "u", "a",
      "l", " ", "u", "n", "d", "e", "f", "i", "n", "e", "d">>

\* String.prototype.includes
Includes(text, part) ==
    \E i \in 1..(Len(text) - Len(part) + 1) : SubSeq(text, i, i + Len(part) - 1) = part

\* The white space String.prototype.trim removes: the tab, the line feed, the
\* vertical tab, the form feed, the carriage return, the space, the
\* no-break space, U+1680, U+FEFF, and U+2000 to U+200A, U+2028, U+2029,
\* U+202F, U+205F and U+3000, which are written by name.
WhiteSpace ==
    { "\t", "\n", "", "\f", "\r", " ", " ", " ", "﻿",
      "U+2000", "U+2001", "U+2002", "U+2003", "U+2004", "U+2005",
      "U+2006", "U+2007", "U+2008", "U+2009", "U+200A", "U+2028",
      "U+2029", "U+202F", "U+205F", "U+3000" }

\* String.prototype.trim: the text without the white space at its start and
\* at its end
RECURSIVE Trim(_)
Trim(text) ==
    IF text = <<>> THEN text
    ELSE IF Head(text) \in WhiteSpace THEN Trim(Tail(text))
    ELSE IF text[Len(text)] \in WhiteSpace THEN Trim(SubSeq(text, 1, Len(text) - 1))
    ELSE text

\* String.prototype.padEnd with spaces: a text of the target length or more
\* is returned as it is
RECURSIVE padEnd(_, _)
padEnd(text, n) ==
    IF Len(text) >= n THEN text ELSE padEnd(Append(text, " "), n)

\* S.decodeUnknown(schema)(source) for S.Struct of required S.String fields,
\* with the default parse options (errors: "first"): the fields are visited
\* in the order of the schema and the first one that does not decode ends
\* the parse.  A field that is not an own key of the source is Missing; a key
\* held with the value undefined is a Type issue.  schema is the sequence of
\* the field names; ast is the whole schema, which the error refers to.
RECURSIVE decodeFields(_, _, _)
decodeFields(ast, schema, source) ==
    IF schema = <<>> THEN [ tag |-> "Success" ]
    ELSE LET name == Head(schema)
         IN  IF name \notin DOMAIN source
             THEN [ tag |-> "Failure",
                    error |-> [ _tag |-> "ParseError", ast |-> ast,
                                path |-> name, issue |-> "Missing" ] ]
             ELSE IF source[name] = None
             THEN [ tag |-> "Failure",
                    error |-> [ _tag |-> "ParseError", ast |-> ast,
                                path |-> name, issue |-> "Type" ] ]
             ELSE decodeFields(ast, Tail(schema), source)

decodeStruct(schema, source) == decodeFields(schema, schema, source)

\* The text the formatter prints for the struct:
\* { readonly A: string; readonly B: string }
structText(ast) ==
    <<"{", " ">> \o Join([ i \in 1..Len(ast) |-> <<"r", "e", "a", "d", "o", "n", "l", "y", " ">> \o ast[i] \o <<":", " ", "s", "t", "r", "i", "n", "g">> ], <<";", " ">>)
    \o <<" ", "}">>

\* ParseResult.TreeFormatter.formatErrorSync(parseError).split("\n"): the
\* line of the struct, the line naming the key as ["key"], and the line of
\* the issue.
formatErrorSync(parseError) ==
    << structText(parseError.ast),
       <<"L", "-", " ", "[", "\"">> \o parseError.path \o <<"\"", "]">>,
       IF parseError.issue = "Missing" THEN LineIsMissing ELSE LineExpectedString >>

\* line.match(/\["([^"]+)"\]/): the text between the first [" and the "] that
\* closes it, one character or more and none of them a quote
keyMatch(line) ==
    LET starts == { i \in 1..Len(line) :
                      /\ i + 3 <= Len(line)
                      /\ line[i] = "[" /\ line[i + 1] = "\""
                      /\ \E j \in (i + 3)..(Len(line) - 1) :
                             /\ line[j] = "\"" /\ line[j + 1] = "]"
                             /\ \A m \in (i + 2)..(j - 1) : line[m] # "\"" }
    IN  IF starts = {} THEN None
        ELSE LET i == CHOOSE x \in starts : \A y \in starts : x <= y
                 j == CHOOSE x \in (i + 3)..(Len(line) - 1) :
                          /\ line[x] = "\"" /\ line[x + 1] = "]"
                          /\ \A m \in (i + 2)..(x - 1) : line[m] # "\""
             IN  Some(SubSeq(line, i + 2, j - 1))

\* The loop over the lines of the formatted error: a line with a key makes
\* it the current key and empties the details; any other non-blank line met
\* while there is a current key is added, trimmed, to the details.
RECURSIVE scanLines(_, _, _)
scanLines(lines, currentKey, errorDetails) ==
    IF lines = <<>> THEN [ currentKey |-> currentKey, errorDetails |-> errorDetails ]
    ELSE IF keyMatch(Head(lines)) # None
    THEN scanLines(Tail(lines), keyMatch(Head(lines)), <<>>)
    ELSE IF currentKey # None /\ Trim(Head(lines)) # <<>>
    THEN scanLines(Tail(lines), currentKey, Append(errorDetails, Trim(Head(lines))))
    ELSE scanLines(Tail(lines), currentKey, errorDetails)

\* The width String.prototype.padEnd is asked for in the key column
KeyWidth == 10

\* The length above which a message is cut
MaxDetails == 30

\* 'Key       | Status    | Details'
HeaderLine ==
    <<"K", "e", "y", " ", " ", " ", " ", " ", " ", " ", "|", " ", "S",
      "t", "a", "t", "u", "s", " ", " ", " ", " ", "|", " ", "D", "e",
      "t", "a", "i", "l", "s">>

\* '-----------|-----------|--------'
SeparatorLine ==
    <<"-", "-", "-", "-", "-", "-", "-", "-", "-", "-", "-", "|", "-",
      "-", "-", "-", "-", "-", "-", "-", "-", "-", "-", "|", "-", "-",
      "-", "-", "-", "-", "-", "-">>

\* ' | missing   | '
MissingStatus ==
    <<" ", "|", " ", "m", "i", "s", "s", "i", "n", "g", " ", " ", " ",
      "|", " ">>

\* ' | invalid   | '
InvalidStatus ==
    <<" ", "|", " ", "i", "n", "v", "a", "l", "i", "d", " ", " ", " ",
      "|", " ">>

\* "\n", written as one character
NewLine == <<"\n">>

\* `${key.padEnd(10)} | missing   | required but not provided`
missingRow(key) ==
    padEnd(key, KeyWidth) \o MissingStatus \o TextRequiredNotProvided

\* shortMsg that cuts a message of exactly the limit as well
shortMsg_offByOne(message) ==
    IF Len(message) >= MaxDetails
    THEN SubSeq(message, 1, MaxDetails) \o TextEllipsis
    ELSE message

\* message.length > 30 ? message.slice(0, 30) + "..." : message
shortMsg(message) ==
    IF Len(message) > MaxDetails
    THEN SubSeq(message, 1, MaxDetails) \o TextEllipsis
    ELSE message

\* `${key.padEnd(10)} | invalid   | ${shortMsg}`
invalidRow(issue) ==
    padEnd(issue.key, KeyWidth) \o InvalidStatus \o shortMsg(issue.message)

\* reportLines with the invalid rows put before the missing rows
reportLines_invalidFirst(error) ==
    << HeaderLine, SeparatorLine >>
    \o [ i \in 1..Len(error.invalid) |-> invalidRow(error.invalid[i]) ]
    \o [ i \in 1..Len(error.missing) |-> missingRow(error.missing[i]) ]

\* The array `lines` of formatValidationReport: the header, the separator, a
\* row for each missing key, then a row for each invalid entry.
reportLines(error) ==
    << HeaderLine, SeparatorLine >>
    \o [ i \in 1..Len(error.missing) |-> missingRow(error.missing[i]) ]
    \o [ i \in 1..Len(error.invalid) |-> invalidRow(error.invalid[i]) ]

\* formatValidationReport(error): lines.join("\n")
formatValidationReport(error) ==
    Join(reportLines(error), NewLine)

\* new ValidationError(missing, invalid, report)
ValidationError(missing, invalid, report) ==
    [ _tag |-> "ValidationError", missing |-> missing, invalid |-> invalid,
      report |-> report ]

\* The first detail that includes 'Expected', 'actual' or 'failure', else the
\* last detail, else 'validation failed'
meaningfulLine(errorDetails) ==
    LET hits == SelectSeq(errorDetails, LAMBDA d :
                    Includes(d, TextExpected) \/ Includes(d, TextActual)
                    \/ Includes(d, TextFailure))
    IN  IF hits # <<>> THEN hits[1]
        ELSE IF errorDetails # <<>> THEN errorDetails[Len(errorDetails)]
        ELSE TextValidationFailed

\* The ValidationError validate builds from a parse error: the key the scan
\* ended on is put in missing when its details say so and in invalid
\* otherwise.
extractError(parseError) ==
    LET errors  == formatErrorSync(parseError)
        scan    == scanLines(errors, None, <<>>)
        text    == Join(scan.errorDetails, <<" ">>)
        isMissing == Includes(text, TextIsMissing) \/ Includes(text, TextIsRequired)
        missing == IF scan.currentKey # None /\ isMissing
                   THEN << Get(scan.currentKey) >> ELSE <<>>
        invalid == IF scan.currentKey # None /\ ~isMissing
                   THEN << [ key |-> Get(scan.currentKey),
                             message |-> meaningfulLine(scan.errorDetails) ] >>
                   ELSE <<>>
    IN  ValidationError(missing, invalid,
                        formatValidationReport(ValidationError(missing, invalid, errors)))

\* ------------------------------------------------------------------------
\* The decode of parseEnv (src/env/layers.ts)

\* 'Schema validation failed: '
TextSchemaFailed ==
    <<"S", "c", "h", "e", "m", "a", " ", "v", "a", "l", "i", "d", "a", "t",
      "i", "o", "n", " ", "f", "a", "i", "l", "e", "d", ":", " ">>

\* parseError.message: the text of the error tree, its lines joined by "\n"
parseErrorMessage(parseError) ==
    Join(formatErrorSync(parseError), NewLine)

\* new EnvError(message)
EnvError(message) ==
    [ _tag |-> "EnvError", message |-> message ]

\* Effect.mapError(S.decodeUnknown(schema)(source), parseError => new
\* EnvError(`Schema validation failed: ${parseError.message}`)) for a struct
\* of required string fields, given as the sequence of its field names: the
\* parsed record holds the schema's fields and nothing else; the first field
\* that does not decode ends the parse with the EnvError.
decodeUnknown(schema, source) ==
    LET decoded == decodeStruct(schema, source)
    IN  IF decoded.tag = "Success"
        THEN [ tag |-> "Success",
               value |-> [ k \in { schema[i] : i \in 1..Len(schema) } |-> Get(source[k]) ] ]
        ELSE [ tag |-> "Failure",
               error |-> EnvError(TextSchemaFailed \o parseErrorMessage(decoded.error)) ]

\* opts?.failInProd ?? false
shouldFail(opts) ==
    IF opts # None /\ Get(opts).failInProd # None THEN Get(Get(opts).failInProd) ELSE FALSE

\* validate that escalates with a bare defect instead of the ValidationError
envValidate_bareDefect(schema, source, opts) ==
    LET decoded == decodeStruct(schema, source)
    IN  IF decoded.tag = "Success" THEN [ tag |-> "Success" ]
        ELSE IF shouldFail(opts)
        THEN [ tag |-> "Die", defect |-> [ _tag |-> "Error" ] ]
        ELSE [ tag |-> "Failure", error |-> extractError(decoded.error) ]

\* validate(schema, source, opts) of src/env/validate.ts, as the Exit of the
\* effect it returns: void on success, the ValidationError as a failure, or
\* as a defect when failInProd is set.
envValidate(schema, source, opts) ==
    LET decoded == decodeStruct(schema, source)
    IN  IF decoded.tag = "Success" THEN [ tag |-> "Success" ]
        ELSE IF shouldFail(opts)
        THEN [ tag |-> "Die", defect |-> extractError(decoded.error) ]
        ELSE [ tag |-> "Failure", error |-> extractError(decoded.error) ]

\* ------------------------------------------------------------------------
\* The Env accessors (src/env/service.ts)
\*
\* A value of the parsed record is a record naming its JavaScript type:
\* undefined, null, or a string, number or boolean with its value, written
\* as the text of its literal.

JsUndefined == [ type |-> "undefined" ]
JsNull == [ type |-> "null" ]
JsString(v) == [ type |-> "string", value |-> v ]
JsNumber(v) == [ type |-> "number", value |-> v ]
JsBoolean(v) == [ type |-> "boolean", value |-> v ]

\* A function, written as the text of its source
JsFunction(v) == [ type |-> "function", value |-> v ]

\* An object, written as the text String gives for it
JsObject(v) == [ type |-> "object", value |-> v ]

\* 'toString'
KeyToString ==
    <<"t", "o", "S", "t", "r", "i", "n", "g">>

\* '__proto__'
KeyProto ==
    <<"_", "_", "p", "r", "o", "t", "o", "_", "_">>

\* 'constructor'
KeyConstructor ==
    <<"c", "o", "n", "s", "t", "r", "u", "c", "t", "o", "r">>

\* 'Object'
TextObjectName ==
    <<"O", "b", "j", "e", "c", "t">>

\* The names of the methods of Object.prototype
ObjectMethods ==
    { <<"_", "_", "d", "e", "f", "i", "n", "e", "G", "e", "t", "t", "e", "r",
         "_", "_">>,
      <<"_", "_", "d", "e", "f", "i", "n", "e", "S", "e", "t", "t", "e", "r",
         "_", "_">>,
      <<"h", "a", "s", "O", "w", "n", "P", "r", "o", "p", "e", "r", "t", "y">>,
      <<"_", "_", "l", "o", "o", "k", "u", "p", "G", "e", "t", "t", "e", "r",
         "_", "_">>,
      <<"_", "_", "l", "o", "o", "k", "u", "p", "S", "e", "t", "t", "e", "r",
         "_", "_">>,
      <<"i", "s", "P", "r", "o", "t", "o", "t", "y", "p", "e", "O", "f">>,
      <<"p", "r", "o", "p", "e", "r", "t", "y", "I", "s", "E", "n", "u", "m",
         "e", "r", "a", "b", "l", "e">>,
      KeyToString,
      <<"v", "a", "l", "u", "e", "O", "f">>,
      <<"t", "o", "L", "o", "c", "a", "l", "e", "S", "t", "r", "i", "n", "g">> }

\* 'function name() { [native code] }', the text of a built-in function
NativeSource(name) ==
    <<"f", "u", "n", "c", "t", "i", "o", "n", " ">> \o name
    \o <<"(", ")", " ", "{", " ", "[", "n", "a", "t", "i", "v", "e", " ",
         "c", "o", "d", "e", "]", " ", "}">>

\* '[object Object]'
TextObject ==
    <<"[", "o", "b", "j", "e", "c", "t", " ", "O", "b", "j", "e", "c", "t",
      "]">>

\* What a plain object inherits from Object.prototype: its methods, the
\* function Object under constructor, and under __proto__ the prototype
\* itself
ObjectPrototype ==
    [ k \in ObjectMethods \cup {KeyConstructor, KeyProto} |->
        IF k = KeyProto THEN JsObject(TextObject)
        ELSE IF k = KeyConstructor THEN JsFunction(NativeSource(TextObjectName))
        ELSE JsFunction(NativeSource(k)) ]

\* parsed[key]: the record's own property, else the property inherited from
\* Object.prototype, else undefined
property(parsed, key) ==
    IF key \in DOMAIN parsed THEN parsed[key]
    ELSE IF key \in DOMAIN ObjectPrototype THEN ObjectPrototype[key]
    ELSE JsUndefined

\* new MissingVarError(String(key))
MissingVarError(key) ==
    [ _tag |-> "MissingVarError",
      message |-> << "Missing required environment variable: ", key >> ]

\* makeEnv(parsed, raw).get(key)
get(parsed, key) ==
    [ tag |-> "Success", value |-> property(parsed, key) ]

\* require as it was before get and require were told apart
require_asGet(parsed, key) ==
    [ tag |-> "Success", value |-> property(parsed, key) ]

\* makeEnv(parsed, raw).require(key)
require(parsed, key) ==
    LET value == property(parsed, key)
    IN  IF value = JsUndefined \/ value = JsNull
        THEN [ tag |-> "Failure", error |-> MissingVarError(key) ]
        ELSE [ tag |-> "Success", value |-> value ]

\* ------------------------------------------------------------------------
\* Redaction (src/env/redact.ts)
\*
\* A record is the sequence of its entries, in the order Object.entries
\* gives them.  A matcher is a string, or a regular expression: a literal
\* text, anchored at the start of the key or not, with the global flag or
\* not, and the lastIndex the expression object holds.

\* String.prototype.toLowerCase is modelled on the texts the model gives it:
\* texts of Latin-1 characters, U+0000 to U+00FF.  On these it does not
\* depend on the version of Unicode the engine carries, and no character
\* changes with its neighbours.  A character outside Latin-1 has no lower
\* case here: LowerCase is not defined on it.

\* The letters of Latin-1 that toLowerCase changes: A to Z, and U+00C0 to
\* U+00DE without the multiplication sign
UpperLetters ==
    <<
      "A", "B", "C", "D", "E", "F", "G", "H", "I", "J", "K", "L",
      "M", "N", "O", "P", "Q", "R", "S", "T", "U", "V", "W", "X",
      "Y", "Z", "À", "Á", "Â", "Ã", "Ä", "Å", "Æ", "Ç", "È", "É",
      "Ê", "Ë", "Ì", "Í", "Î", "Ï", "Ð", "Ñ", "Ò", "Ó", "Ô", "Õ",
      "Ö", "Ø", "Ù", "Ú", "Û", "Ü", "Ý", "Þ"
    >>

\* Their lower case: a to z, and U+00E0 to U+00FE without the division sign
LowerLetters ==
    <<
      "a", "b", "c", "d", "e", "f", "g", "h", "i", "j", "k", "l",
      "m", "n", "o", "p", "q", "r", "s", "t", "u", "v", "w", "x",
      "y", "z", "à", "á", "â", "ã", "ä", "å", "æ", "ç", "è", "é",
      "ê", "ë", "ì", "í", "î", "ï", "ð", "ñ", "ò", "ó", "ô", "õ",
      "ö", "ø", "ù", "ú", "û", "ü", "ý", "þ"
    >>

\* The characters of Latin-1 that toLowerCase leaves as they are
Latin1Unchanged ==
    {
      "U+0000", "", "", "", "", "", "", "", "", "\t", "\n", "",
      "\f", "\r", "", "", "", "", "", "", "", "", "", "",
      "", "", "", "", "", "", "", "", " ", "!", "\"", "#",
      "$", "%", "&", "'", "(", ")", "*", "+", ",", "-", ".", "/",
      "0", "1", "2", "3", "4", "5", "6", "7", "8", "9", ":", ";",
      "<", "=", ">", "?", "@", "[", "\\", "]", "^", "_", "U+0060", "a",
      "b", "c", "d", "e", "f", "g", "h", "i", "j", "k", "l", "m",
      "n", "o", "p", "q", "r", "s", "t", "u", "v", "w", "x", "y",
      "z", "{", "|", "}", "~", "", "", "", "", "", "", "",
      "", "", "", "", "", "", "", "", "", "", "", "",
      "", "", "", "", "", "", "", "", "", "", "", "",
      "", "", " ", "¡", "¢", "£", "¤", "¥", "¦", "§", "¨", "©",
      "ª", "«", "¬", "­", "®", "¯", "°", "±", "²", "³", "´", "µ",
      "¶", "·", "¸", "¹", "º", "»", "¼", "½", "¾", "¿", "×", "ß",
      "à", "á", "â", "ã", "ä", "å", "æ", "ç", "è", "é", "ê", "ë",
      "ì", "í", "î", "ï", "ð", "ñ", "ò", "ó", "ô", "õ", "ö", "÷",
      "ø", "ù", "ú", "û", "ü", "ý", "þ", "ÿ"
    }

\* The lower case of each character of Latin-1
LowerCase ==
    [ c \in { UpperLetters[n] : n \in 1..Len(UpperLetters) } \cup Latin1Unchanged |->
        IF c \in Latin1Unchanged THEN c
        ELSE LowerLetters[CHOOSE n \in 1..Len(UpperLetters) : UpperLetters[n] = c] ]

\* String.prototype.toLowerCase, on a text of Latin-1 characters
toLowerCase(text) ==
    [ i \in 1..Len(text) |-> LowerCase[text[i]] ]

StringMatcher(text) == [ kind |-> "string", text |-> text ]

RegExpMatcher(anchored, literal, global) ==
    [ kind |-> "regexp", anchored |-> anchored, literal |-> literal,
      global |-> global, lastIndex |-> 0 ]

DEFAULT_MATCHERS ==
    << StringMatcher(<<"k", "e", "y">>),
       StringMatcher(<<"t", "o", "k", "e", "n">>),
       StringMatcher(<<"s", "e", "c", "r", "e", "t">>),
       StringMatcher(<<"p", "a", "s", "s", "w", "o", "r", "d">>),
       StringMatcher(<<"p", "w", "d">>),
       StringMatcher(<<"p", "r", "i", "v", "a", "t", "e">>),
       StringMatcher(<<"b", "e", "a", "r", "e", "r">>),
       StringMatcher(<<"a", "p", "i">>),
       StringMatcher(<<"a", "u", "t", "h">>) >>

\* '***'
Redacted == <<"*", "*", "*">>

\* The indexes, counted from 0, at which the expression matches the key when
\* the search starts at index from
matchesFrom(matcher, key, from) ==
    { i \in from..(Len(key) - Len(matcher.literal)) :
        /\ SubSeq(key, i + 1, i + Len(matcher.literal)) = matcher.literal
        /\ matcher.anchored => i = 0 }

\* RegExp.prototype.test(key): without the global flag the search starts at
\* 0 and lastIndex is left alone; with it the search starts at lastIndex,
\* which a match moves to the end of the match and a failure sets to 0.
test(matcher, key) ==
    LET from == IF matcher.global THEN matcher.lastIndex ELSE 0
        at   == matchesFrom(matcher, key, from)
        end  == (CHOOSE i \in at : \A j \in at : i <= j) + Len(matcher.literal)
    IN  [ result  |-> at # {},
          matcher |-> IF ~matcher.global THEN matcher
                      ELSE [ matcher EXCEPT !.lastIndex = IF at # {} THEN end ELSE 0 ] ]

\* matchers.some(...) on one key: the matchers are tried in order up to the
\* first that matches; the result, and the matchers as the tests left them.
RECURSIVE some(_, _)
some(matchers, key) ==
    IF matchers = <<>> THEN [ result |-> FALSE, matchers |-> <<>> ]
    ELSE LET matcher == Head(matchers)
             tried   == IF matcher.kind = "string"
                        THEN [ result  |-> Includes(toLowerCase(key), toLowerCase(matcher.text)),
                               matcher |-> matcher ]
                        ELSE test(matcher, key)
             rest    == some(Tail(matchers), key)
         IN  IF tried.result
             THEN [ result |-> TRUE, matchers |-> << tried.matcher >> \o Tail(matchers) ]
             ELSE [ result |-> rest.result, matchers |-> << tried.matcher >> \o rest.matchers ]

\* The loop of redact over Object.entries(record).  `redacted[key] = ...`
\* adds the property key to the object, except for the key __proto__: that
\* assignment goes to the setter of Object.prototype, which ignores a string
\* and undefined, and the object gets no property.
RECURSIVE redactEntries(_, _, _)
redactEntries(entries, matchers, redacted) ==
    IF entries = <<>> THEN [ redacted |-> redacted, matchers |-> matchers ]
    ELSE LET entry == Head(entries)
             shouldRedact == some(matchers, entry.key)
         IN  redactEntries(Tail(entries), shouldRedact.matchers,
                 IF entry.key = KeyProto THEN redacted
                 ELSE Append(redacted,
                             [ key   |-> entry.key,
                               value |-> IF shouldRedact.result THEN Some(Redacted)
                                         ELSE entry.value ]))

\* opts?.extra ?? []
extraOf(opts) ==
    IF opts # None /\ Get(opts).extra # None THEN Get(Get(opts).extra) ELSE <<>>

\* redact(record, opts): the record it returns, and opts as the call left it
\* (the expressions in extra are the caller's objects).
redact(record, opts) ==
    LET extra == extraOf(opts)
        done  == redactEntries(record, DEFAULT_MATCHERS \o extra, <<>>)
        after == SubSeq(done.matchers, Len(DEFAULT_MATCHERS) + 1, Len(done.matchers))
    IN  [ redacted |-> done.redacted,
          opts     |-> IF extra = <<>> THEN opts ELSE Some([ extra |-> Some(after) ]) ]

\* ------------------------------------------------------------------------
\* Inputs of the pipeline model

\* Largest number of keys in one key list of a meta given to the pipeline.
MaxListLen == 1

KeyP == <<"P">>
KeyS == <<"S">>

LoadKeyLists == { ks \in SUBSET {KeyP, KeyS} : Cardinality(ks) <= MaxListLen }

LoadMetas ==
    { [serverKeys |-> sk, clientKeys |-> ck, clientPrefix |-> pre] :
        sk \in LoadKeyLists, ck \in LoadKeyLists, pre \in Prefixes }

Optional(S) == {None} \cup { Some(x) : x \in S }

LoadMetaOverrides ==
    Optional([ serverKeys : Optional(LoadKeyLists),
               clientKeys : Optional(LoadKeyLists),
               clientPrefix : Optional(Prefixes) ])

\* Raw environments: every value of a raw environment names where it was
\* read from.  A key may be present, mapped to undefined, or left out.
RawEnvs(origin) ==
    { [k \in {KeyP, KeyS} |-> Some(origin)],
      [k \in {KeyP, KeyS} |-> IF k = KeyS THEN None ELSE Some(origin)],
      [k \in {KeyP} |-> Some(origin)] }

OptionSources ==
    { Source("stub", "succeed", env) : env \in RawEnvs("stub") }
    \cup { Source("failing", "fail", <<>>), Source("throw", "throw", <<>>),
           Source("dying", "die", <<>>) }

ConfigSources ==
    { Source("config", "succeed", [k \in {KeyP, KeyS} |-> Some("config")]),
      Source("config", "fail", <<>>) }

\* Programs: the keys read into the server subset and into the client one.
SplitProgram == [server |-> <<KeyS>>, client |-> <<KeyP>>]
SharedProgram == [server |-> <<KeyS>>, client |-> <<KeyS>>]
AltProgram == [server |-> <<KeyP>>, client |-> <<KeyP>>]

StdMeta == [serverKeys |-> {KeyS}, clientKeys |-> {KeyP}, clientPrefix |-> KeyP]
AltMeta == [serverKeys |-> {}, clientKeys |-> {}, clientPrefix |-> <<>>]

\* Service configurations that vary the source, the mode and config.prefix.
FlowConfigs ==
    { [ isServer |-> m, loading |-> l,
        validation |-> [compiled |-> [program |-> SplitProgram, meta |-> StdMeta]],
        prefix |-> p, metaOverride |-> None ] :
        m \in Optional(BOOLEAN),
        l \in Optional([defaultSource : Optional(ConfigSources)]),
        p \in Optional([meta : Optional({AltMeta})]) }

\* Service configurations that vary the program, the meta and metaOverride.
MetaConfigs ==
    { [ isServer |-> None, loading |-> None,
        validation |-> [compiled |-> [program |-> prog, meta |-> m]],
        prefix |-> None, metaOverride |-> o ] :
        prog \in {SplitProgram, SharedProgram}, m \in LoadMetas, o \in LoadMetaOverrides }

EnvServiceConfigs == FlowConfigs \cup MetaConfigs

\* Per-call options that vary the source, the mode and the compiled program.
FlowOptions ==
    Optional([ loading : Optional([source : Optional(OptionSources)]),
               validation : Optional([compiled : Optional({[program |-> AltProgram, meta |-> AltMeta]})]),
               metaOverride : {None},
               isServer : Optional(BOOLEAN) ])

\* Per-call options that vary the meta override and the mode.
MetaOptions ==
    [ loading : {None}, validation : {None},
      metaOverride : LoadMetaOverrides, isServer : Optional({FALSE}) ]

EnvServiceOptions == FlowOptions \cup { Some(o) : o \in MetaOptions }

\* Inputs of the layer constructors: a schema (its required fields), a
\* source record and the layer options.
KeyPublicA == <<"P", "U", "B", "L", "I", "C", "_", "A">>

LayerKeys == {KeyS, KeyP, KeyPublicA}

\* Struct schemas: the required string fields, in the order of declaration
LayerSchemas ==
    { sch \in UNION { [1..n -> LayerKeys] : n \in 0..Cardinality(LayerKeys) } :
        \A i, j \in 1..Len(sch) : i # j => sch[i] # sch[j] }

\* Records given to fromRecord: a key may be held with undefined
LayerSources ==
    UNION { [dom -> Optional({"value"})] : dom \in SUBSET LayerKeys }

LayerOptions == Optional([ clientPrefix : Optional(Prefixes) ])

\* What process.env may hold when a layer is built: strings only
LayerProcessEnvs ==
    UNION { [dom -> {"process.env"}] : dom \in SUBSET LayerKeys }

\* The variables of the file dotenv.config(opts) reads
DotenvFiles ==
    UNION { [dom -> {"file"}] : dom \in SUBSET {KeyS, KeyPublicA} }

\* "ENOENT: no such file or directory, open '.env.local'": the message of the
\* system error for opts = { path: ".env.local" } when there is no such file
TextNoSuchFile ==
    <<"E", "N", "O", "E", "N", "T", ":", " ", "n", "o", " ", "s", "u", "c",
      "h", " ", "f", "i", "l", "e", " ", "o", "r", " ", "d", "i", "r", "e",
      "c", "t", "o", "r", "y", ",", " ", "o", "p", "e", "n", " ", "'", ".",
      "e", "n", "v", ".", "l", "o", "c", "a", "l", "'">>

\* "EISDIR: illegal operation on a directory, read": the message of the
\* system error when the path is a directory
TextIsDirectory ==
    <<"E", "I", "S", "D", "I", "R", ":", " ", "i", "l", "l", "e", "g", "a",
      "l", " ", "o", "p", "e", "r", "a", "t", "i", "o", "n", " ", "o", "n",
      " ", "a", " ", "d", "i", "r", "e", "c", "t", "o", "r", "y", ",", " ",
      "r", "e", "a", "d">>

DotenvErrorMessages == { TextNoSuchFile, TextIsDirectory }

\* No call of dotenv.config
NoDotenv == [ error |-> None, parsed |-> <<>> ]

\* The object dotenv.config(opts) returns: the variables it parsed, or the
\* error of the read with its message
DotenvConfigs ==
    { [ error |-> None, parsed |-> f ] : f \in DotenvFiles }
    \cup { [ error |-> Some(m), parsed |-> <<>> ] : m \in DotenvErrorMessages }

\* fromRecord(schema, record, options)
FromRecordInputs ==
    [ kind : {"fromRecord"}, schema : LayerSchemas, record : LayerSources,
      config : {NoDotenv}, options : LayerOptions ]

\* fromProcess(schema, options)
FromProcessInputs ==
    [ kind : {"fromProcess"}, schema : LayerSchemas, record : {<<>>},
      config : {NoDotenv}, options : LayerOptions ]

\* fromDotenv(schema, opts, options), with what dotenv.config(opts) returns
FromDotenvInputs ==
    [ kind : {"fromDotenv"}, schema : LayerSchemas, record : {<<>>},
      config : DotenvConfigs, options : LayerOptions ]

LayerInputs == FromRecordInputs \cup FromProcessInputs \cup FromDotenvInputs

\* Inputs of validate: a struct schema (its required string fields, in
\* order), a source record whose keys may be held with undefined, and opts.
ValidateKeys == {KeyP, KeyS, KeyPublicA}

ValidateSchemas ==
    { sch \in UNION { [1..n -> ValidateKeys] : n \in 1..Cardinality(ValidateKeys) } :
        \A i, j \in 1..Len(sch) : i # j => sch[i] # sch[j] }

ValidateSources ==
    UNION { [dom -> Optional({"value"})] : dom \in SUBSET ValidateKeys }

ValidateOpts == Optional([ failInProd : Optional(BOOLEAN) ])

\* Largest number of times validate is run on one schema and source.
MaxRuns == 2

\* The calls of load() that are followed: one where the stages of a call are
\* studied, two where calls run side by side.
SingleCall == {"call1"}
TwoCalls == {"call1", "call2"}

\* Service configurations of the two-call model: the mode and the default
\* source vary.
CallConfigs ==
    { c \in FlowConfigs :
        /\ c.prefix = None
        /\ c.loading \in { None, Some([defaultSource |->
                               Some(Source("config", "succeed",
                                           [k \in {KeyP, KeyS} |-> Some("config")]))]) } }

\* Per-call options of the two-call model: the source, the mode and the meta
\* override vary.
CallSources ==
    { Source("stub", "succeed", [k \in {KeyP, KeyS} |-> Some("stub")]),
      Source("stub", "succeed", [k \in {KeyP, KeyS} |-> IF k = KeyS THEN None ELSE Some("stub")]),
      Source("failing", "fail", <<>>) }

CallMetaOverrides ==
    { None, Some([serverKeys |-> Some({}), clientKeys |-> None, clientPrefix |-> None]) }

CallOptions ==
    Optional([ loading : {None} \cup { Some([source |-> Some(src)]) : src \in CallSources },
               validation : {None},
               metaOverride : CallMetaOverrides,
               isServer : Optional(BOOLEAN) ])

\* Errors handed to formatValidationReport: keys shorter than the key
\* column, of its width and longer; messages shorter than the cut, of its
\* length and longer.
MaxRows == 3

\* 'PORT'
KeyPort ==
    <<"P", "O", "R", "T">>

\* 'LOG_FORMAT'
KeyLogFormat ==
    <<"L", "O", "G", "_", "F", "O", "R", "M", "A", "T">>

\* 'DATABASE_URL'
KeyDatabaseUrl ==
    <<"D", "A", "T", "A", "B", "A", "S", "E", "_", "U", "R", "L">>

ReportKeys == {KeyPort, KeyLogFormat, KeyDatabaseUrl}

\* 'Expected number'
TextExpectedNumber ==
    <<"E", "x", "p", "e", "c", "t", "e", "d", " ", "n", "u", "m", "b",
      "e", "r">>

ReportMessages ==
    { TextExpectedNumber, [ i \in 1..MaxDetails |-> "x" ], [ i \in 1..(MaxDetails + 1) |-> "x" ] }

SeqsUpTo(S, n) == UNION { [1..m -> S] : m \in 0..n }

\* The errors with at most MaxRows entries, missing and invalid together
ReportErrors ==
    UNION { { ValidationError(missing, invalid, <<>>) :
                missing \in [ 1..p[1] -> ReportKeys ],
                invalid \in [ 1..p[2] -> [ key : ReportKeys, message : ReportMessages ] ] } :
            p \in { q \in (0..MaxRows) \X (0..MaxRows) : q[1] + q[2] <= MaxRows } }

\* Parsed records read through the accessors: a key may be absent, or hold
\* undefined, null, or a value, the falsy ones included.
ParsedKeys == {KeyP, KeyS}

\* The keys asked for: the keys a record may hold, and toString, which no
\* record holds
AccessKeys == ParsedKeys \cup {KeyToString}

ParsedValues ==
    { JsUndefined, JsNull, JsString(<<>>), JsString(<<"3", "0", "0", "0">>),
      JsNumber(<<"0">>), JsBoolean(<<"f", "a", "l", "s", "e">>) }

ParsedRecords == UNION { [ ks -> ParsedValues ] : ks \in SUBSET ParsedKeys }

\* Records given to redact, with keys the default matchers catch in another
\* case, keys an extra matcher catches, and a key none catches.
MaxEntries == 2

\* 'Api_Token'
KeyApiToken ==
    <<"A", "p", "i", "_", "T", "o", "k", "e", "n">>

\* 'CUSTOM_A'
KeyCustomA ==
    <<"C", "U", "S", "T", "O", "M", "_", "A">>

\* 'CUSTOM_B'
KeyCustomB ==
    <<"C", "U", "S", "T", "O", "M", "_", "B">>

\* 'SESSION_ID'
KeySessionId ==
    <<"S", "E", "S", "S", "I", "O", "N", "_", "I", "D">>

\* 'CUSTOM_'
TextCustom ==
    <<"C", "U", "S", "T", "O", "M", "_">>

\* 'CLÉ'
KeyCle ==
    <<"C", "L", "É">>

RedactKeys ==
    {KeyApiToken, KeyCustomA, KeyCustomB, KeySessionId, KeyPort, KeyProto, KeyCle}

RedactValues == { Some(<<"v">>), None }

RedactRecords ==
    { r \in SeqsUpTo([ key : RedactKeys, value : RedactValues ], MaxEntries) :
        \A i, j \in 1..Len(r) : i # j => r[i].key # r[j].key }

\* redact(record), redact(record, {}), and extra of ["session_id"], ["clé"],
\* [/^CUSTOM_/] and [/^CUSTOM_/g]
RedactOpts ==
    { None, Some([ extra |-> None ]),
      Some([ extra |-> Some(<< StringMatcher(toLowerCase(KeySessionId)) >>) ]),
      Some([ extra |-> Some(<< StringMatcher(<<"c", "l", "é">>) >>) ]),
      Some([ extra |-> Some(<< RegExpMatcher(TRUE, TextCustom, FALSE) >>) ]),
      Some([ extra |-> Some(<< RegExpMatcher(TRUE, TextCustom, TRUE) >>) ]) }

\* ConfigErrors given to collectIssues: trees of And and Or over leaves of
\* the four kinds, with an empty path, a path of one segment and of two.
MaxLeaves == 3

ConfigErrorLeaves ==
    { [ op |-> "MissingData", path |-> <<KeyS>>, message |-> "missing" ],
      [ op |-> "InvalidData", path |-> <<KeyP, KeyS>>, message |-> "invalid" ],
      [ op |-> "SourceUnavailable", path |-> <<>>, message |-> "unavailable" ],
      [ op |-> "Unsupported", path |-> <<KeyP>>, message |-> "unsupported" ] }

RECURSIVE ConfigErrorsOf(_)
ConfigErrorsOf(leaves) ==
    IF leaves = 1 THEN ConfigErrorLeaves
    ELSE UNION { { [ op |-> op, left |-> l, right |-> r ] :
                     op \in {"And", "Or"},
                     l \in ConfigErrorsOf(k), r \in ConfigErrorsOf(leaves - k) } :
                 k \in 1..(leaves - 1) }

ConfigErrors == UNION { ConfigErrorsOf(n) : n \in 1..MaxLeaves }

\* ------------------------------------------------------------------------
\* State

VARIABLES
    prefixConfig,   \* PrefixEnforcementConfig of a directly built enforcement
                    \* service, None when none was built
    enfResult,      \* ValidationResult passed to the last enforce call
    enfOptions,     \* PrefixEnforcementOptions of the last enforce call
    enfMeta,        \* the meta enforce resolved in the last call (its local `meta`)
    enfExit,        \* Exit of the last enforce call
    enfAgain,       \* Exit of enforce applied to the value of a successful enfExit
    enfTwin,        \* a second result given to enforce with the same options, and
                    \* the Exit of that call; None when there was none
    envConfig,      \* EnvServiceConfig of the pipeline service, None when none was built
    processEnv,     \* process.env
    pc,             \* per call: the stage load() is at
    callOptions,    \* per call: the options load() was called with
    raw,            \* per call: the loaded raw environment
    validation,     \* per call: the frozen validation result
    callMeta,       \* per call: the local `meta` of load()
    enforcedMeta,   \* per call: the meta enforce resolved inside load()
    enforced,       \* per call: the result enforce returned
    exit,           \* per call: the Exit of load()
    trace,          \* per call: the stages run so far, in order
    layerInput,     \* arguments of the layer constructor, None when none was built
    layerPc,        \* the stage parseEnv is at
    layerParsed,    \* the record the schema decoded
    layerPartition, \* what partitionEnv returned
    layerExit,      \* Exit of parseEnv
    valInput,       \* schema and source given to validate, None when it is not used
    valRuns,        \* the runs of validate so far: the opts and the Exit of each
    repError,       \* the error given to formatValidationReport, None when it is not used
    repRuns,        \* the texts formatValidationReport returned for it so far
    envParsed,      \* the parsed record of an Env built by makeEnv, None when none was built
    accessed,       \* the accessor calls made on it: method, key and Exit of each
    redInput,       \* the record given to redact, None when it is not used
    redOpts,        \* the opts given to redact, with the expressions as the calls left them
    redRuns,        \* the records redact returned so far
    treeError,      \* the ConfigError given to collectIssues, None when it is not used
    treeIssues      \* the issues collectIssues returned for it, None before the call

enfVars == <<prefixConfig, enfResult, enfOptions, enfMeta, enfExit, enfAgain, enfTwin>>

loadVars == <<envConfig, processEnv, pc, callOptions, raw, validation, callMeta,
              enforcedMeta, enforced, exit, trace>>

layerVars == <<layerInput, layerPc, layerParsed, layerPartition, layerExit>>

valVars == <<valInput, valRuns>>

repVars == <<repError, repRuns>>

accVars == <<envParsed, accessed>>

redVars == <<redInput, redOpts, redRuns>>

treeVars == <<treeError, treeIssues>>

toolVars == <<repVars, accVars, redVars, treeVars>>

vars == <<prefixConfig, enfResult, enfOptions, enfMeta, enfExit, enfAgain, enfTwin,
          envConfig, processEnv, pc, callOptions, raw, validation, callMeta,
          enforcedMeta, enforced, exit, trace,
          layerInput, layerPc, layerParsed, layerPartition, layerExit,
          valInput, valRuns,
          repError, repRuns,
          envParsed, accessed,
          redInput, redOpts, redRuns,
          treeError, treeIssues>>

\* The calls of load() this behaviour follows.
Calls == DOMAIN pc

NoExit == [tag |-> "none"]
NoResult == [server |-> <<>>, client |-> <<>>]

\* No enforcement service was built.
EnforceIdle ==
    /\ prefixConfig = None
    /\ enfResult = NoResult
    /\ enfOptions = [isServer |-> TRUE, metaOverride |-> None]
    /\ enfMeta = None
    /\ enfExit = NoExit
    /\ enfAgain = NoExit
    /\ enfTwin = None

\* None of the calls cs of load() was made.
CallsIdleOver(cs) ==
    /\ pc = [c \in cs |-> "idle"]
    /\ callOptions = [c \in cs |-> None]
    /\ raw = [c \in cs |-> None]
    /\ validation = [c \in cs |-> None]
    /\ callMeta = [c \in cs |-> None]
    /\ enforcedMeta = [c \in cs |-> None]
    /\ enforced = [c \in cs |-> None]
    /\ exit = [c \in cs |-> NoExit]
    /\ trace = [c \in cs |-> <<>>]

\* No call of load() was made.
CallsIdle == CallsIdleOver(SingleCall)

\* No layer was built.
LayerIdle ==
    /\ layerInput = None
    /\ layerPc = "idle"
    /\ layerParsed = None
    /\ layerPartition = None
    /\ layerExit = NoExit

\* validate is not used.
ValidateIdle ==
    /\ valInput = None
    /\ valRuns = <<>>

\* formatValidationReport is not used.
ReportIdle ==
    /\ repError = None
    /\ repRuns = <<>>

\* No Env was built by makeEnv.
AccessIdle ==
    /\ envParsed = None
    /\ accessed = <<>>

\* redact is not used.
RedactIdle ==
    /\ redInput = None
    /\ redOpts = None
    /\ redRuns = <<>>

\* collectIssues is not used on its own.
TreeIdle ==
    /\ treeError = None
    /\ treeIssues = None

ToolsIdle ==
    /\ ReportIdle
    /\ AccessIdle
    /\ RedactIdle
    /\ TreeIdle

\* PrefixEnforcementService.Default(config)
InitEnforce ==
    /\ prefixConfig \in { Some([meta |-> m]) : m \in Metas }
    /\ enfResult = NoResult
    /\ enfOptions = [isServer |-> TRUE, metaOverride |-> None]
    /\ enfMeta = None
    /\ enfExit = NoExit
    /\ enfAgain = NoExit
    /\ enfTwin = None
    /\ envConfig = None
    /\ processEnv = <<>>
    /\ CallsIdle
    /\ LayerIdle
    /\ ValidateIdle
    /\ ToolsIdle

\* EnvServiceProvider.Default(config).  process.env holds both keys, or P
\* alone under the configurations that vary the source.
InitLoad ==
    /\ EnforceIdle
    /\ envConfig \in { Some(c) : c \in EnvServiceConfigs }
    /\ processEnv \in { [k \in {KeyP, KeyS} |-> "process.env"] }
                      \cup (IF Get(envConfig) \in FlowConfigs
                            THEN { [k \in {KeyP} |-> "process.env"] } ELSE {})
    /\ CallsIdle
    /\ LayerIdle
    /\ ValidateIdle
    /\ ToolsIdle

\* A layer constructor was called: fromRecord and fromProcess start with
\* parseEnv, fromDotenv with dotenv.config.  fromRecord does not read
\* process.env, which is left empty for it.
InitLayer ==
    /\ EnforceIdle
    /\ envConfig = None
    /\ CallsIdle
    /\ layerInput \in { Some(i) : i \in LayerInputs }
    /\ processEnv \in IF Get(layerInput).kind = "fromRecord" THEN { <<>> }
                      ELSE LayerProcessEnvs
    /\ layerPc = IF Get(layerInput).kind = "fromDotenv" THEN "dotenv" ELSE "decode"
    /\ layerParsed = None
    /\ layerPartition = None
    /\ layerExit = NoExit
    /\ ValidateIdle
    /\ ToolsIdle

\* A schema and a source on which validate is run
InitValidate ==
    /\ EnforceIdle
    /\ envConfig = None
    /\ processEnv = <<>>
    /\ CallsIdle
    /\ LayerIdle
    /\ valInput \in { Some([schema |-> sch, source |-> src]) :
                        sch \in ValidateSchemas, src \in ValidateSources }
    /\ valRuns = <<>>
    /\ ToolsIdle

\* An error on which formatValidationReport is run
InitReport ==
    /\ EnforceIdle
    /\ envConfig = None
    /\ processEnv = <<>>
    /\ CallsIdle
    /\ LayerIdle
    /\ ValidateIdle
    /\ repError \in { Some(e) : e \in ReportErrors }
    /\ repRuns = <<>>
    /\ AccessIdle
    /\ RedactIdle
    /\ TreeIdle

\* makeEnv(parsed, raw)
InitAccess ==
    /\ EnforceIdle
    /\ envConfig = None
    /\ processEnv = <<>>
    /\ CallsIdle
    /\ LayerIdle
    /\ ValidateIdle
    /\ ReportIdle
    /\ envParsed \in { Some(r) : r \in ParsedRecords }
    /\ accessed = <<>>
    /\ RedactIdle
    /\ TreeIdle

\* A record and opts on which redact is run
InitRedact ==
    /\ EnforceIdle
    /\ envConfig = None
    /\ processEnv = <<>>
    /\ CallsIdle
    /\ LayerIdle
    /\ ValidateIdle
    /\ ReportIdle
    /\ AccessIdle
    /\ redInput \in { Some(r) : r \in RedactRecords }
    /\ redOpts \in RedactOpts
    /\ redRuns = <<>>
    /\ TreeIdle

\* A ConfigError on which collectIssues is run
InitTree ==
    /\ EnforceIdle
    /\ envConfig = None
    /\ processEnv = <<>>
    /\ CallsIdle
    /\ LayerIdle
    /\ ValidateIdle
    /\ ReportIdle
    /\ AccessIdle
    /\ RedactIdle
    /\ treeError \in { Some(e) : e \in ConfigErrors }
    /\ treeIssues = None

Init == InitEnforce \/ InitLoad \/ InitLayer \/ InitValidate

\* EnvServiceProvider.Default(config), used by two callers
InitCalls ==
    /\ EnforceIdle
    /\ envConfig \in { Some(c) : c \in CallConfigs }
    /\ processEnv \in { [k \in {KeyP, KeyS} |-> "process.env"], [k \in {KeyP} |-> "process.env"] }
    /\ CallsIdleOver(TwoCalls)
    /\ LayerIdle
    /\ ValidateIdle
    /\ ToolsIdle

\* ------------------------------------------------------------------------
\* Direct use of the enforcement service

\* A caller runs enforce(result, options) on the service.
Enforce(result, options) ==
    /\ prefixConfig # None
    /\ enfExit = NoExit
    /\ enfResult' = result
    /\ enfOptions' = options
    /\ enfMeta' = Some(resolveMeta(Get(prefixConfig).meta, options.metaOverride))
    /\ enfExit' = enforce(Get(prefixConfig), result, options)
    /\ UNCHANGED <<prefixConfig, enfAgain, enfTwin>>
    /\ UNCHANGED loadVars
    /\ UNCHANGED layerVars
    /\ UNCHANGED valVars
    /\ UNCHANGED toolVars

\* The caller passes the returned result to enforce again, same options.
EnforceAgain ==
    /\ prefixConfig # None
    /\ enfExit.tag = "Success"
    /\ enfAgain = NoExit
    /\ enfAgain' = enforce(Get(prefixConfig), enfExit.value, enfOptions)
    /\ UNCHANGED <<prefixConfig, enfResult, enfOptions, enfMeta, enfExit, enfTwin>>
    /\ UNCHANGED loadVars
    /\ UNCHANGED layerVars
    /\ UNCHANGED valVars
    /\ UNCHANGED toolVars

\* The subset enforce is asked about: server in server mode, client otherwise
requested(result, options) ==
    IF options.isServer THEN result.server ELSE result.client

\* A caller runs enforce, with the options of the first call, on a second
\* result that holds the same subset of the requested mode.
EnforceTwin(result) ==
    /\ prefixConfig # None
    /\ enfExit # NoExit
    /\ enfTwin = None
    /\ requested(result, enfOptions) = requested(enfResult, enfOptions)
    /\ enfTwin' = Some([ result |-> result,
                         exit |-> enforce(Get(prefixConfig), result, enfOptions) ])
    /\ UNCHANGED <<prefixConfig, enfResult, enfOptions, enfMeta, enfExit, enfAgain>>
    /\ UNCHANGED loadVars
    /\ UNCHANGED layerVars
    /\ UNCHANGED valVars
    /\ UNCHANGED toolVars

\* ------------------------------------------------------------------------
\* load()

Finish(c, x) ==
    /\ exit' = [exit EXCEPT ![c] = x]
    /\ pc' = [pc EXCEPT ![c] = "done"]

\* A caller calls load(options).
StartLoad(c, options) ==
    /\ envConfig # None
    /\ pc[c] = "idle"
    /\ pc' = [pc EXCEPT ![c] = "loading"]
    /\ callOptions' = [callOptions EXCEPT ![c] = options]
    /\ UNCHANGED <<envConfig, processEnv, raw, validation, callMeta, enforcedMeta,
                   enforced, exit, trace>>
    /\ UNCHANGED enfVars
    /\ UNCHANGED layerVars
    /\ UNCHANGED valVars
    /\ UNCHANGED toolVars

\* LoadSource behind a load-once guard: once a call has read a source, a
\* further read yields an empty environment
LoadSource_once(c) ==
    /\ pc[c] = "loading"
    /\ LET source == chooseSource(loadingLayerConfig(Get(envConfig)),
                                  optionsLoading(callOptions[c]),
                                  [k \in DOMAIN processEnv |-> Some(processEnv[k])])
           loaded == loadFromSource(source)
       IN  /\ trace' = [trace EXCEPT ![c] = Append(@, "load")]
           /\ IF loaded.tag = "Success"
              THEN /\ raw' = [raw EXCEPT ![c] =
                                IF \E d \in Calls \ {c} : raw[d] # None
                                THEN Some(<<>>) ELSE Some(loaded.value)]
                   /\ pc' = [pc EXCEPT ![c] = "validating"]
                   /\ UNCHANGED exit
              ELSE /\ Finish(c, loaded)
                   /\ UNCHANGED raw
    /\ UNCHANGED <<envConfig, processEnv, callOptions, validation, callMeta,
                   enforcedMeta, enforced>>
    /\ UNCHANGED enfVars
    /\ UNCHANGED layerVars
    /\ UNCHANGED valVars
    /\ UNCHANGED toolVars

\* EnvLoadingService.load(options?.loading) under the loading layer
LoadSource(c) ==
    /\ pc[c] = "loading"
    /\ LET source == chooseSource(loadingLayerConfig(Get(envConfig)),
                                  optionsLoading(callOptions[c]),
                                  [k \in DOMAIN processEnv |-> Some(processEnv[k])])
           loaded == loadFromSource(source)
       IN  /\ trace' = [trace EXCEPT ![c] = Append(@, "load")]
           /\ IF loaded.tag = "Success"
              THEN /\ raw' = [raw EXCEPT ![c] = Some(loaded.value)]
                   /\ pc' = [pc EXCEPT ![c] = "validating"]
                   /\ UNCHANGED exit
              ELSE /\ Finish(c, loaded)
                   /\ UNCHANGED raw
    /\ UNCHANGED <<envConfig, processEnv, callOptions, validation, callMeta,
                   enforcedMeta, enforced>>
    /\ UNCHANGED enfVars
    /\ UNCHANGED layerVars
    /\ UNCHANGED valVars
    /\ UNCHANGED toolVars

\* Validate that records a decode failure and lets the pipeline go on
Validate_continues(c) ==
    /\ pc[c] = "validating"
    /\ LET validated == validate(validationLayerConfig(Get(envConfig), callOptions[c]),
                                 Get(raw[c]), optionsValidation(callOptions[c]))
       IN  /\ trace' = [trace EXCEPT ![c] = Append(@, "validate")]
           /\ pc' = [pc EXCEPT ![c] = "enforcing"]
           /\ IF validated.tag = "Success"
              THEN /\ validation' = [validation EXCEPT ![c] = Some(validated.value)]
                   /\ UNCHANGED exit
              ELSE /\ validation' = [validation EXCEPT ![c] = Some(NoResult)]
                   /\ exit' = [exit EXCEPT ![c] = validated]
    /\ UNCHANGED <<envConfig, processEnv, callOptions, raw, callMeta, enforcedMeta, enforced>>
    /\ UNCHANGED enfVars
    /\ UNCHANGED layerVars
    /\ UNCHANGED valVars
    /\ UNCHANGED toolVars

\* ValidationService.validate(raw, options?.validation) under the validation layer
Validate(c) ==
    /\ pc[c] = "validating"
    /\ LET validated == validate(validationLayerConfig(Get(envConfig), callOptions[c]),
                                 Get(raw[c]), optionsValidation(callOptions[c]))
       IN  /\ trace' = [trace EXCEPT ![c] = Append(@, "validate")]
           /\ IF validated.tag = "Success"
              THEN /\ validation' = [validation EXCEPT ![c] = Some(validated.value)]
                   /\ pc' = [pc EXCEPT ![c] = "enforcing"]
                   /\ UNCHANGED exit
              ELSE /\ Finish(c, validated)
                   /\ UNCHANGED validation
    /\ UNCHANGED <<envConfig, processEnv, callOptions, raw, callMeta, enforcedMeta, enforced>>
    /\ UNCHANGED enfVars
    /\ UNCHANGED layerVars
    /\ UNCHANGED valVars
    /\ UNCHANGED toolVars

\* EnforceStep that keeps the last meta override on the service: a call
\* without an override of its own picks up the override of another call
EnforceStep_leaky(c) ==
    /\ pc[c] = "enforcing"
    /\ LET others   == { d \in Calls \ {c} : optionsMetaOverride(callOptions[d]) # None }
           override == IF optionsMetaOverride(callOptions[c]) = None /\ others # {}
                       THEN optionsMetaOverride(callOptions[CHOOSE d \in others : TRUE])
                       ELSE optionsMetaOverride(callOptions[c])
           meta     == mergeMeta(baseMeta(Get(envConfig)), override)
           isServer == loadIsServer(Get(envConfig), callOptions[c])
           options  == [isServer |-> isServer, metaOverride |-> override]
           layer    == prefixLayerConfig(Get(envConfig), meta)
           outcome  == enforce(layer, Get(validation[c]), options)
       IN  /\ trace' = [trace EXCEPT ![c] = Append(@, "enforce")]
           /\ callMeta' = [callMeta EXCEPT ![c] = Some(meta)]
           /\ enforcedMeta' = [enforcedMeta EXCEPT ![c] =
                                  Some(resolveMeta(layer.meta, options.metaOverride))]
           /\ IF outcome.tag = "Success"
              THEN /\ enforced' = [enforced EXCEPT ![c] = Some(outcome.value)]
                   /\ pc' = [pc EXCEPT ![c] = "building"]
                   /\ UNCHANGED exit
              ELSE /\ Finish(c, outcome)
                   /\ UNCHANGED enforced
    /\ UNCHANGED <<envConfig, processEnv, callOptions, raw, validation>>
    /\ UNCHANGED enfVars
    /\ UNCHANGED layerVars
    /\ UNCHANGED valVars
    /\ UNCHANGED toolVars

\* meta and isServer are computed, then PrefixEnforcementService.enforce runs
\* under a layer built from the merged meta.
EnforceStep(c) ==
    /\ pc[c] = "enforcing"
    /\ LET meta     == loadMeta(Get(envConfig), callOptions[c])
           isServer == loadIsServer(Get(envConfig), callOptions[c])
           options  == [isServer |-> isServer,
                        metaOverride |-> optionsMetaOverride(callOptions[c])]
           layer    == prefixLayerConfig(Get(envConfig), meta)
           outcome  == enforce(layer, Get(validation[c]), options)
       IN  /\ trace' = [trace EXCEPT ![c] = Append(@, "enforce")]
           /\ callMeta' = [callMeta EXCEPT ![c] = Some(meta)]
           /\ enforcedMeta' = [enforcedMeta EXCEPT ![c] =
                                  Some(resolveMeta(layer.meta, options.metaOverride))]
           /\ IF outcome.tag = "Success"
              THEN /\ enforced' = [enforced EXCEPT ![c] = Some(outcome.value)]
                   /\ pc' = [pc EXCEPT ![c] = "building"]
                   /\ UNCHANGED exit
              ELSE /\ Finish(c, outcome)
                   /\ UNCHANGED enforced
    /\ UNCHANGED <<envConfig, processEnv, callOptions, raw, validation>>
    /\ UNCHANGED enfVars
    /\ UNCHANGED layerVars
    /\ UNCHANGED valVars
    /\ UNCHANGED toolVars

\* BuildResult that takes env from the server subset in both modes
BuildResult_serverEnv(c) ==
    /\ pc[c] = "building"
    /\ LET isServer == loadIsServer(Get(envConfig), callOptions[c])
           result == [ mode |-> IF isServer THEN "server" ELSE "client",
                       raw |-> Get(raw[c]),
                       validation |-> Get(enforced[c]), meta |-> Get(callMeta[c]),
                       env |-> Get(enforced[c]).server ]
       IN  /\ trace' = [trace EXCEPT ![c] = Append(@, "result")]
           /\ Finish(c, [tag |-> "Success", value |-> result])
    /\ UNCHANGED <<envConfig, processEnv, callOptions, raw, validation, callMeta,
                   enforcedMeta, enforced>>
    /\ UNCHANGED enfVars
    /\ UNCHANGED layerVars
    /\ UNCHANGED valVars
    /\ UNCHANGED toolVars

\* The EnvServiceResult is built and returned.
BuildResult(c) ==
    /\ pc[c] = "building"
    /\ LET isServer == loadIsServer(Get(envConfig), callOptions[c])
           result == IF isServer
                     THEN [ mode |-> "server", raw |-> Get(raw[c]),
                            validation |-> Get(enforced[c]), meta |-> Get(callMeta[c]),
                            env |-> Get(enforced[c]).server ]
                     ELSE [ mode |-> "client", raw |-> Get(raw[c]),
                            validation |-> Get(enforced[c]), meta |-> Get(callMeta[c]),
                            env |-> Get(enforced[c]).client ]
       IN  /\ trace' = [trace EXCEPT ![c] = Append(@, "result")]
           /\ Finish(c, [tag |-> "Success", value |-> result])
    /\ UNCHANGED <<envConfig, processEnv, callOptions, raw, validation, callMeta,
                   enforcedMeta, enforced>>
    /\ UNCHANGED enfVars
    /\ UNCHANGED layerVars
    /\ UNCHANGED valVars
    /\ UNCHANGED toolVars

\* Cancel that hands the caller what the call has computed so far
Cancel_partial(c) ==
    /\ pc[c] \in {"loading", "validating", "enforcing", "building"}
    /\ Finish(c, [ tag |-> "Success",
                   value |-> [ raw |-> raw[c], validation |-> validation[c],
                               meta |-> callMeta[c] ] ])
    /\ UNCHANGED <<envConfig, processEnv, callOptions, raw, validation, callMeta,
                   enforcedMeta, enforced, trace>>
    /\ UNCHANGED enfVars
    /\ UNCHANGED layerVars
    /\ UNCHANGED valVars
    /\ UNCHANGED toolVars

\* The fiber running load() is interrupted while the call is suspended on a
\* yield* of the generator: the call ends with an interruption and the
\* generator never reaches its return.
Cancel(c) ==
    /\ pc[c] \in {"loading", "validating", "enforcing", "building"}
    /\ Finish(c, [tag |-> "Interrupt"])
    /\ UNCHANGED <<envConfig, processEnv, callOptions, raw, validation, callMeta,
                   enforcedMeta, enforced, trace>>
    /\ UNCHANGED enfVars
    /\ UNCHANGED layerVars
    /\ UNCHANGED valVars
    /\ UNCHANGED toolVars

\* ------------------------------------------------------------------------
\* parseEnv, run when a layer is built

\* 'Dotenv config error: '
TextDotenvError ==
    <<"D", "o", "t", "e", "n", "v", " ", "c", "o", "n", "f", "i", "g", " ",
      "e", "r", "r", "o", "r", ":", " ">>

\* dotenv.config(opts) on process.env: a variable of the file is written
\* unless process.env holds the key already
dotenvPopulate(env, file) ==
    [ k \in DOMAIN env \cup DOMAIN file |-> IF k \in DOMAIN env THEN env[k] ELSE file[k] ]

\* fromDotenv, before parseEnv: dotenv.config(opts) loads the file into
\* process.env; when it reports an error the layer fails with
\* `Dotenv config error: ${config.error.message}` and nothing is parsed.
DotenvConfig ==
    /\ layerPc = "dotenv"
    /\ LET config == Get(layerInput).config
       IN  IF config.error # None
           THEN /\ layerExit' = [ tag |-> "Failure",
                                  error |-> EnvError(TextDotenvError \o Get(config.error)) ]
                /\ layerPc' = "done"
                /\ UNCHANGED processEnv
           ELSE /\ processEnv' = dotenvPopulate(processEnv, config.parsed)
                /\ layerPc' = "decode"
                /\ UNCHANGED layerExit
    /\ UNCHANGED <<layerInput, layerParsed, layerPartition>>
    /\ UNCHANGED enfVars
    /\ UNCHANGED <<envConfig, pc, callOptions, raw, validation, callMeta,
                   enforcedMeta, enforced, exit, trace>>
    /\ UNCHANGED valVars
    /\ UNCHANGED toolVars

\* The source parseEnv is given: the record for fromRecord, process.env for
\* fromProcess and fromDotenv
layerSource(input, env) ==
    IF input.kind = "fromRecord" THEN input.record
    ELSE [ k \in DOMAIN env |-> Some(env[k]) ]

\* The source is decoded with the schema.
ParseDecode ==
    /\ layerPc = "decode"
    /\ LET decoded == decodeUnknown(Get(layerInput).schema,
                                    layerSource(Get(layerInput), processEnv))
       IN  IF decoded.tag = "Success"
           THEN /\ layerParsed' = Some(decoded.value)
                /\ layerPc' = "partition"
                /\ UNCHANGED layerExit
           ELSE /\ layerExit' = decoded
                /\ layerPc' = "done"
                /\ UNCHANGED layerParsed
    /\ UNCHANGED <<layerInput, layerPartition>>
    /\ UNCHANGED enfVars
    /\ UNCHANGED loadVars
    /\ UNCHANGED valVars
    /\ UNCHANGED toolVars

\* The parsed record is split by partitionEnv.
ParsePartition ==
    /\ layerPc = "partition"
    /\ layerPartition' = Some(partitionEnv(Get(layerParsed),
                                           layerClientPrefix(Get(layerInput).options)))
    /\ layerPc' = "enforce"
    /\ UNCHANGED <<layerInput, layerParsed, layerExit>>
    /\ UNCHANGED enfVars
    /\ UNCHANGED loadVars
    /\ UNCHANGED valVars
    /\ UNCHANGED toolVars

\* 'Prefix enforcement failed ('
TextPrefixFailed ==
    <<"P", "r", "e", "f", "i", "x", " ", "e", "n", "f", "o", "r", "c", "e",
      "m", "e", "n", "t", " ", "f", "a", "i", "l", "e", "d", " ", "(">>

\* error.mode, as the text the template literal prints
modeText(mode) ==
    IF mode = "server" THEN <<"s", "e", "r", "v", "e", "r">>
    ELSE <<"c", "l", "i", "e", "n", "t">>

\* Both modes are enforced on the partition, under a service built from the
\* partition's own meta; parseEnv returns the parsed record.
ParseEnforce ==
    /\ layerPc = "enforce"
    /\ LET part == Get(layerPartition)
           outcome == enforcePrefixes([meta |-> part.meta], part.validationResult)
       IN  layerExit' =
             IF outcome.tag = "Failure"
             THEN [ tag |-> "Failure",
                    error |-> EnvError(TextPrefixFailed \o modeText(outcome.error.mode)
                                       \o <<")", ":", " ">>
                                       \o Join(outcome.error.keys, <<",", " ">>)) ]
             ELSE [ tag |-> "Success", value |-> Get(layerParsed) ]
    /\ layerPc' = "done"
    /\ UNCHANGED <<layerInput, layerParsed, layerPartition>>
    /\ UNCHANGED enfVars
    /\ UNCHANGED loadVars
    /\ UNCHANGED valVars
    /\ UNCHANGED toolVars

\* ------------------------------------------------------------------------
\* validate, run on a schema and a source

\* A caller runs validate(schema, source, opts).
ValidateRun(opts) ==
    /\ valInput # None
    /\ Len(valRuns) < MaxRuns
    /\ valRuns' = Append(valRuns,
                         [ opts |-> opts,
                           exit |-> envValidate(Get(valInput).schema,
                                                Get(valInput).source, opts) ])
    /\ UNCHANGED valInput
    /\ UNCHANGED enfVars
    /\ UNCHANGED loadVars
    /\ UNCHANGED layerVars
    /\ UNCHANGED toolVars

\* ------------------------------------------------------------------------
\* formatValidationReport, run on an error

\* A caller runs formatValidationReport(error).
FormatReport ==
    /\ repError # None
    /\ Len(repRuns) < MaxRuns
    /\ repRuns' = Append(repRuns, formatValidationReport(Get(repError)))
    /\ UNCHANGED repError
    /\ UNCHANGED enfVars
    /\ UNCHANGED loadVars
    /\ UNCHANGED layerVars
    /\ UNCHANGED valVars
    /\ UNCHANGED accVars
    /\ UNCHANGED redVars
    /\ UNCHANGED treeVars

\* ------------------------------------------------------------------------
\* The accessors of an Env

\* A caller runs env.get(key).
EnvGet(key) ==
    /\ envParsed # None
    /\ Len(accessed) < MaxRuns
    /\ accessed' = Append(accessed, [ method |-> "get", key |-> key,
                                      exit |-> get(Get(envParsed), key) ])
    /\ UNCHANGED envParsed
    /\ UNCHANGED enfVars
    /\ UNCHANGED loadVars
    /\ UNCHANGED layerVars
    /\ UNCHANGED valVars
    /\ UNCHANGED repVars
    /\ UNCHANGED redVars
    /\ UNCHANGED treeVars

\* A caller runs env.require(key).
EnvRequire(key) ==
    /\ envParsed # None
    /\ Len(accessed) < MaxRuns
    /\ accessed' = Append(accessed, [ method |-> "require", key |-> key,
                                      exit |-> require(Get(envParsed), key) ])
    /\ UNCHANGED envParsed
    /\ UNCHANGED enfVars
    /\ UNCHANGED loadVars
    /\ UNCHANGED layerVars
    /\ UNCHANGED valVars
    /\ UNCHANGED repVars
    /\ UNCHANGED redVars
    /\ UNCHANGED treeVars

\* ------------------------------------------------------------------------
\* redact, run on a record

\* A caller runs redact(record, opts).
Redact ==
    /\ redInput # None
    /\ Len(redRuns) < MaxRuns
    /\ redRuns' = Append(redRuns, redact(Get(redInput), redOpts).redacted)
    /\ redOpts' = redact(Get(redInput), redOpts).opts
    /\ UNCHANGED redInput
    /\ UNCHANGED enfVars
    /\ UNCHANGED loadVars
    /\ UNCHANGED layerVars
    /\ UNCHANGED valVars
    /\ UNCHANGED repVars
    /\ UNCHANGED accVars
    /\ UNCHANGED treeVars

\* ------------------------------------------------------------------------
\* collectIssues, run on a ConfigError

\* decode maps a failure of the provider with collectIssues(error).
CollectIssues ==
    /\ treeError # None
    /\ treeIssues = None
    /\ treeIssues' = Some(collectIssues(Get(treeError)))
    /\ UNCHANGED treeError
    /\ UNCHANGED enfVars
    /\ UNCHANGED loadVars
    /\ UNCHANGED layerVars
    /\ UNCHANGED valVars
    /\ UNCHANGED repVars
    /\ UNCHANGED accVars
    /\ UNCHANGED redVars

\* ------------------------------------------------------------------------
\* Specification

ValidateCall ==
    /\ valInput # None
    /\ \E opts \in ValidateOpts : ValidateRun(opts)

EnforceCall ==
    /\ enfExit = NoExit
    /\ prefixConfig # None
    /\ \E result \in ValidationResults, options \in PrefixEnforcementOptions :
           Enforce(result, options)

LoadCall ==
    /\ envConfig # None
    /\ \E c \in Calls :
           /\ pc[c] = "idle"
           /\ \E options \in EnvServiceOptions : StartLoad(c, options)

Next ==
    \/ EnforceCall
    \/ EnforceAgain
    \/ LoadCall
    \/ \E c \in Calls : LoadSource(c)
    \/ \E c \in Calls : Validate(c)
    \/ \E c \in Calls : EnforceStep(c)
    \/ \E c \in Calls : BuildResult(c)
    \/ DotenvConfig
    \/ ParseDecode
    \/ ParsePartition
    \/ ParseEnforce
    \/ ValidateCall

Spec == Init /\ [][Next]_vars

\* Two callers use one service: their calls start in any order, their stages
\* interleave in any order, and either may be cancelled.
StartCall ==
    /\ envConfig # None
    /\ \E c \in Calls :
           /\ pc[c] = "idle"
           /\ \E options \in CallOptions : StartLoad(c, options)

NextCalls ==
    \/ StartCall
    \/ \E c \in Calls : LoadSource(c)
    \/ \E c \in Calls : Validate(c)
    \/ \E c \in Calls : EnforceStep(c)
    \/ \E c \in Calls : BuildResult(c)
    \/ \E c \in Calls : Cancel(c)

SpecCalls == InitCalls /\ [][NextCalls]_vars

\* Two results are given to one enforcement service with the same options.
EnforceTwinCall ==
    /\ enfExit # NoExit
    /\ \E result \in ValidationResults : EnforceTwin(result)

NextTwin ==
    \/ EnforceCall
    \/ EnforceTwinCall

SpecTwin == InitEnforce /\ [][NextTwin]_vars

\* The helpers that are functions of their arguments, each run on inputs of
\* its own.
InitTools ==
    \/ InitReport
    \/ InitAccess
    \/ InitRedact
    \/ InitTree

NextTools ==
    \/ FormatReport
    \/ \E key \in AccessKeys : EnvGet(key)
    \/ \E key \in AccessKeys : EnvRequire(key)
    \/ Redact
    \/ CollectIssues

SpecTools == InitTools /\ [][NextTools]_vars

\* ------------------------------------------------------------------------
\* Properties

\* String.prototype.split: the parts of text between the occurrences of sep
RECURSIVE Split(_, _)
Split(text, sep) ==
    LET at == { i \in 1..(Len(text) - Len(sep) + 1) :
                  SubSeq(text, i, i + Len(sep) - 1) = sep }
    IN  IF at = {} THEN << text >>
        ELSE LET i == CHOOSE x \in at : \A y \in at : x <= y
             IN  << SubSeq(text, 1, i - 1) >>
                 \o Split(SubSeq(text, i + Len(sep), Len(text)), sep)

\* The lines of a text
Lines(text) == Split(text, NewLine)

MetaFields == {"serverKeys", "clientKeys", "clientPrefix"}

\* The override gives a value for field f.
Supplies(override, f) == override # None /\ Get(override)[f] # None

\* base overlaid by override, one field at a time.
Overlaid(base, override) ==
    [ f \in MetaFields |->
        IF Supplies(override, f) THEN Get(Get(override)[f]) ELSE base[f] ]

HasPrefix(key, meta) == meta.clientPrefix # <<>> /\ StartsWith(key, meta.clientPrefix)

\* The keys of env that server mode forbids under meta M.
ServerForbidden(env, M) ==
    { k \in DOMAIN env : k \in M.clientKeys \/ k \notin M.serverKeys \/ HasPrefix(k, M) }

\* The keys of env that client mode forbids under meta M.
ClientForbidden(env, M) ==
    { k \in DOMAIN env :
        k \notin M.clientKeys \/ (M.clientPrefix # <<>> /\ ~StartsWith(k, M.clientPrefix)) }

DirectMeta == Overlaid(Get(prefixConfig).meta, enfOptions.metaOverride)

IsPrefixError(x) == x.tag = "Failure" /\ x.error._tag = "PrefixError"

\* C1: in server mode, enforce fails with a PrefixError listing exactly the
\* keys of result.server that are declared client keys, are not declared
\* server keys, or carry a non-empty client prefix, and succeeds when there
\* is no such key.
C1_ServerRule ==
    (prefixConfig # None /\ enfExit # NoExit /\ enfOptions.isServer) =>
        LET bad == ServerForbidden(enfResult.server, DirectMeta)
        IN  IF bad # {}
            THEN IsPrefixError(enfExit) /\ SeqRange(enfExit.error.keys) = bad
            ELSE enfExit.tag = "Success"

\* A server-mode call under an override is rejected for a key that is
\* undeclared and nothing else (default deny).
C1_Witness ==
    /\ prefixConfig # None
    /\ enfOptions.isServer
    /\ enfOptions.metaOverride # None
    /\ IsPrefixError(enfExit)
    /\ \E k \in SeqRange(enfExit.error.keys) :
           /\ k \notin DirectMeta.clientKeys
           /\ k \notin DirectMeta.serverKeys
           /\ ~HasPrefix(k, DirectMeta)

\* C2: in client mode, enforce fails with a PrefixError listing exactly the
\* keys of result.client that are not declared client keys or lack a
\* non-empty client prefix, and succeeds when there is no such key; with an
\* empty prefix membership in clientKeys alone decides.
C2_ClientRule ==
    (prefixConfig # None /\ enfExit # NoExit /\ ~enfOptions.isServer) =>
        LET bad == ClientForbidden(enfResult.client, DirectMeta)
        IN  /\ IF bad # {}
               THEN IsPrefixError(enfExit) /\ SeqRange(enfExit.error.keys) = bad
               ELSE enfExit.tag = "Success"
            /\ DirectMeta.clientPrefix = <<>> =>
                   bad = DOMAIN enfResult.client \ DirectMeta.clientKeys

\* A client-mode call with an empty prefix is rejected for an undeclared key
\* while a declared key of the same subset is not reported.
C2_Witness ==
    /\ prefixConfig # None
    /\ ~enfOptions.isServer
    /\ DirectMeta.clientPrefix = <<>>
    /\ IsPrefixError(enfExit)
    /\ \E k \in DOMAIN enfResult.client :
           k \in DirectMeta.clientKeys /\ k \notin SeqRange(enfExit.error.keys)

\* The value of a successful load() of call c.
Loaded(c) == exit[c].value

\* C3 as claimed: after a successful load(), in either mode, validation.server
\* holds no declared client key and no client-prefixed key and
\* validation.client holds only declared client keys carrying the prefix.
C3_NoLeakEitherSubset ==
    \A c \in Calls :
        exit[c].tag = "Success" =>
            /\ \A k \in DOMAIN Loaded(c).validation.server :
                   k \notin Loaded(c).meta.clientKeys /\ ~HasPrefix(k, Loaded(c).meta)
            /\ \A k \in DOMAIN Loaded(c).validation.client :
                   k \in Loaded(c).meta.clientKeys
                   /\ StartsWith(k, Loaded(c).meta.clientPrefix)

\* C3 amended: after a successful load(), the subset of the resolved mode
\* does not leak: in server mode validation.server holds declared server keys
\* only, none of them a declared client key or client-prefixed; in client
\* mode validation.client holds declared client keys only, each carrying the
\* client prefix.
C3_RequestedSubsetClean ==
    \A c \in Calls :
        exit[c].tag = "Success" =>
            IF Loaded(c).mode = "server"
            THEN \A k \in DOMAIN Loaded(c).validation.server :
                     /\ k \in Loaded(c).meta.serverKeys
                     /\ k \notin Loaded(c).meta.clientKeys
                     /\ ~HasPrefix(k, Loaded(c).meta)
            ELSE \A k \in DOMAIN Loaded(c).validation.client :
                     /\ k \in Loaded(c).meta.clientKeys
                     /\ StartsWith(k, Loaded(c).meta.clientPrefix)

\* A server-mode load() succeeded with a clean, non-empty server subset
\* while its client subset holds a key that is no declared client key.
C3_Witness ==
    \E c \in Calls :
        /\ exit[c].tag = "Success"
        /\ Loaded(c).mode = "server"
        /\ DOMAIN Loaded(c).validation.server # {}
        /\ \E k \in DOMAIN Loaded(c).validation.client :
               k \notin Loaded(c).meta.clientKeys

\* What C4 says of a PrefixError raised for the given mode.
PrefixErrorWellFormed(error, isServer) ==
    /\ \A i \in 1..(Len(error.keys) - 1) : StrLess(error.keys[i], error.keys[i + 1])
    /\ error.mode = (IF isServer THEN "server" ELSE "client")
    /\ error.message.banner = (IF isServer THEN "Server mode forbids these keys: "
                                           ELSE "Client mode forbids these keys: ")
    /\ error.message.keys = Join(error.keys, <<",", " ">>)

\* C4: a PrefixError lists its keys in ascending code-unit order without
\* duplicates, carries the requested mode, and its message is the banner of
\* that mode followed by the keys joined with ", ".
C4_ErrorShape ==
    /\ IsPrefixError(enfExit) => PrefixErrorWellFormed(enfExit.error, enfOptions.isServer)
    /\ \A c \in Calls :
           IsPrefixError(exit[c]) =>
               PrefixErrorWellFormed(exit[c].error,
                                     loadIsServer(Get(envConfig), callOptions[c]))

\* A PrefixError lists two keys, one of which breaks two rules at once.
C4_Witness ==
    /\ prefixConfig # None
    /\ IsPrefixError(enfExit)
    /\ enfOptions.isServer
    /\ Len(enfExit.error.keys) = 2
    /\ \E k \in SeqRange(enfExit.error.keys) :
           k \in DirectMeta.clientKeys /\ HasPrefix(k, DirectMeta)

\* C5: a successful enforce returns the result it was given, keys and
\* values of both subsets untouched, in both modes and under any override.
C5_PassThrough ==
    enfExit.tag = "Success" => enfExit.value = enfResult

\* A client-mode enforce under an override succeeded on a result whose two
\* subsets are both non-empty.
C5_Witness ==
    /\ enfExit.tag = "Success"
    /\ ~enfOptions.isServer
    /\ enfOptions.metaOverride # None
    /\ DOMAIN enfResult.server # {}
    /\ DOMAIN enfResult.client # {}

\* C6: enforcing the result of a successful enforce again, with the same
\* options, succeeds and returns that same result.
C6_Idempotent ==
    enfAgain # NoExit =>
        enfAgain.tag = "Success" /\ enfAgain.value = enfExit.value

\* A second enforce ran on a result whose subsets differ.
C6_Witness ==
    /\ enfAgain.tag = "Success"
    /\ enfResult.server # enfResult.client

\* C7: the effective meta is a field-by-field merge: in enforce each field
\* comes from metaOverride when it supplies the field and from the service
\* meta otherwise; in load() each field comes from options.metaOverride, else
\* from config.metaOverride, else from the compiled meta.
C7_FieldByFieldMerge ==
    /\ enfMeta # None =>
           \A f \in MetaFields :
               Get(enfMeta)[f] = IF Supplies(enfOptions.metaOverride, f)
                                 THEN Get(Get(enfOptions.metaOverride)[f])
                                 ELSE Get(prefixConfig).meta[f]
    /\ \A c \in Calls :
           callMeta[c] # None =>
               \A f \in MetaFields :
                   Get(callMeta[c])[f] =
                       IF Supplies(optionsMetaOverride(callOptions[c]), f)
                       THEN Get(Get(optionsMetaOverride(callOptions[c]))[f])
                       ELSE IF Supplies(Get(envConfig).metaOverride, f)
                       THEN Get(Get(Get(envConfig).metaOverride)[f])
                       ELSE Get(envConfig).validation.compiled.meta[f]

\* load() merged three layers: the call supplies clientPrefix only, the
\* service override supplies serverKeys only, clientKeys is left to the
\* compiled meta, and each layer's value differs from the one below it.
C7_Witness ==
    \E c \in Calls :
        /\ callMeta[c] # None
        /\ LET base == Get(envConfig).validation.compiled.meta
               co   == Get(envConfig).metaOverride
               oo   == optionsMetaOverride(callOptions[c])
           IN  /\ Supplies(oo, "clientPrefix") /\ ~Supplies(oo, "serverKeys")
               /\ ~Supplies(oo, "clientKeys")
               /\ Supplies(co, "serverKeys") /\ ~Supplies(co, "clientKeys")
               /\ Supplies(co, "clientPrefix")
               /\ Get(Get(co).clientPrefix) # Get(Get(oo).clientPrefix)
               /\ Get(Get(co).serverKeys) # base.serverKeys
               /\ base.clientKeys # {}

\* The prefix parseEnv splits by.
LayerPrefix ==
    IF Supplies(Get(layerInput).options, "clientPrefix")
    THEN Get(Get(Get(layerInput).options).clientPrefix)
    ELSE DefaultClientPrefix

\* The two subsets are disjoint and together hold the fields of whole, with
\* their values.
SplitsExactly(result, whole) ==
    /\ DOMAIN result.server \cap DOMAIN result.client = {}
    /\ DOMAIN result.server \cup DOMAIN result.client = DOMAIN whole
    /\ \A k \in DOMAIN result.server : result.server[k] = whole[k]
    /\ \A k \in DOMAIN result.client : result.client[k] = whole[k]

\* C8 as claimed: the client subset is the decoded fields whose name starts
\* with the client prefix and the server subset is the rest, both where the
\* layers split a parsed record and in what load() hands to enforcement.
C8_SplitByPrefix ==
    /\ layerPartition # None =>
           LET split == Get(layerPartition).validationResult
           IN  /\ DOMAIN split.client =
                      { k \in DOMAIN Get(layerParsed) : StartsWith(k, LayerPrefix) }
               /\ SplitsExactly(split, Get(layerParsed))
    /\ \A c \in Calls :
           exit[c].tag = "Success" =>
               /\ \A k \in DOMAIN Loaded(c).validation.client :
                      StartsWith(k, Loaded(c).meta.clientPrefix)
               /\ \A k \in DOMAIN Loaded(c).validation.server :
                      ~StartsWith(k, Loaded(c).meta.clientPrefix)

\* C8 amended: partitionEnv places a decoded field in the client subset when
\* the client prefix is non-empty and the name starts with it, and in the
\* server subset otherwise (so every field when the prefix is empty); the
\* subsets are disjoint and their union is the decoded record.  This is the
\* split parseEnv makes between decoding and enforcement.
C8_SplitByNonEmptyPrefix ==
    layerPartition # None =>
        LET split == Get(layerPartition).validationResult
        IN  /\ DOMAIN split.client =
                   { k \in DOMAIN Get(layerParsed) :
                       LayerPrefix # <<>> /\ StartsWith(k, LayerPrefix) }
            /\ SplitsExactly(split, Get(layerParsed))
            /\ layerPc \in {"enforce", "done"}

\* A parsed record was split under the prefix "P" into two non-empty subsets.
C8_Witness ==
    /\ layerPartition # None
    /\ LayerPrefix = KeyP
    /\ DOMAIN Get(layerPartition).validationResult.server # {}
    /\ DOMAIN Get(layerPartition).validationResult.client # {}

StageOrder == <<"load", "validate", "enforce", "result">>

IsPrefixOf(s, t) == Len(s) <= Len(t) /\ s = SubSeq(t, 1, Len(s))

FailedWith(c, kind) == exit[c].tag = "Failure" /\ exit[c].error._tag = kind

\* The program load() decodes with reads a key the raw environment lacks.
DecodeFails(c) ==
    LET compiled == chooseCompiled(Get(envConfig).validation,
                                   optionsValidation(callOptions[c]))
    IN  \E k \in SeqRange(compiled.program.server) \cup SeqRange(compiled.program.client) :
            k \notin DOMAIN Get(raw[c]) \/ Get(raw[c])[k] = None

\* C9: load() runs source load, validation, enforcement and result
\* construction in that order, each at most once; a failed source load ends
\* the call before validation, a failed decode ends it with a ValidationError
\* before enforcement, and a result is built only after enforcement
\* succeeded.
C9_StageOrder ==
    \A c \in Calls :
        /\ IsPrefixOf(trace[c], StageOrder)
        /\ FailedWith(c, "EnvLoadingError") =>
               trace[c] = <<"load">> /\ validation[c] = None /\ enforced[c] = None
        /\ exit[c].tag = "Die" => trace[c] = <<"load">>
        /\ (Len(trace[c]) >= 2 /\ DecodeFails(c)) =>
               FailedWith(c, "ValidationError") /\ trace[c] = <<"load", "validate">>
        /\ FailedWith(c, "ValidationError") =>
               trace[c] = <<"load", "validate">> /\ enforced[c] = None
        /\ FailedWith(c, "PrefixError") =>
               trace[c] = <<"load", "validate", "enforce">> /\ enforced[c] = None
        /\ exit[c].tag = "Success" =>
               trace[c] = StageOrder /\ enforced[c] # None

\* A load() ended with a ValidationError after two stages.
C9_Witness ==
    \E c \in Calls :
        FailedWith(c, "ValidationError") /\ trace[c] = <<"load", "validate">>

\* The source load() reads for call c.
ChosenSource(c) ==
    chooseSource(loadingLayerConfig(Get(envConfig)), optionsLoading(callOptions[c]),
                 [k \in DOMAIN processEnv |-> Some(processEnv[k])])

\* C10: a failure of load() is an EnvLoadingError, a ValidationError or a
\* PrefixError; a source whose load effect fails and a source whose load()
\* throws both give a failure (not a defect) that is an EnvLoadingError whose
\* message names the source and whose cause is the underlying error.
C10_FailureKinds ==
    \A c \in Calls :
        /\ exit[c].tag = "Failure" =>
               exit[c].error._tag \in {"EnvLoadingError", "ValidationError", "PrefixError"}
        /\ (trace[c] # <<>> /\ ChosenSource(c).kind \in {"fail", "throw"}) =>
               /\ FailedWith(c, "EnvLoadingError")
               /\ ChosenSource(c).name \in SeqRange(exit[c].error.message)
               /\ exit[c].error.cause._tag =
                      (IF ChosenSource(c).kind = "fail" THEN "EnvSourceError" ELSE "Error")

\* A load() whose source threw ended with an EnvLoadingError.
C10_Witness ==
    \E c \in Calls :
        /\ trace[c] # <<>>
        /\ ChosenSource(c).kind = "throw"
        /\ FailedWith(c, "EnvLoadingError")

\* The mode load() resolves for call c: the call's isServer when given, else
\* the service's, else server.
ExpectedIsServer(c) ==
    IF callOptions[c] # None /\ Get(callOptions[c]).isServer # None
    THEN Get(Get(callOptions[c]).isServer)
    ELSE IF Get(envConfig).isServer # None THEN Get(Get(envConfig).isServer)
    ELSE TRUE

\* C12: a successful load() returns the resolved mode, the validation result
\* the validation stage produced, and as env the server subset of that result
\* in server mode and its client subset in client mode.
C12_EnvAliasesMode ==
    \A c \in Calls :
        exit[c].tag = "Success" =>
            /\ Loaded(c).mode = (IF ExpectedIsServer(c) THEN "server" ELSE "client")
            /\ Loaded(c).validation = Get(validation[c])
            /\ Loaded(c).env = (IF Loaded(c).mode = "server"
                                THEN Get(validation[c]).server
                                ELSE Get(validation[c]).client)

\* A client-mode load() succeeded with the subsets {S} and {P}: env is {P}.
C12_Witness ==
    \E c \in Calls :
        /\ exit[c].tag = "Success"
        /\ Loaded(c).mode = "client"
        /\ DOMAIN Loaded(c).validation.server = {KeyS}
        /\ DOMAIN Loaded(c).env = {KeyP}

\* The call gives a source of its own.
CallGivesSource(c) ==
    /\ callOptions[c] # None
    /\ Get(callOptions[c]).loading # None
    /\ Get(Get(callOptions[c]).loading).source # None

\* The service was built with a default source.
ConfigGivesSource ==
    /\ Get(envConfig).loading # None
    /\ Get(Get(envConfig).loading).defaultSource # None

\* The source call c is to read: the call's, else the service's, else
\* process.env.
ExpectedSource(c) ==
    IF CallGivesSource(c) THEN Get(Get(Get(callOptions[c]).loading).source)
    ELSE IF ConfigGivesSource THEN Get(Get(Get(envConfig).loading).defaultSource)
    ELSE [ name |-> "process.env", kind |-> "succeed",
           env |-> [k \in DOMAIN processEnv |-> Some(processEnv[k])] ]

\* C11: for every call, whatever the other call was given, the raw
\* environment is the one of the source passed in the call's options when
\* there is one, else of the service's default source when configured, else
\* process.env; the mode of the result or of the PrefixError is the call's
\* isServer when given, else the service's, else server.
C11_ResolutionOrder ==
    \A c \in Calls :
        /\ raw[c] # None => Get(raw[c]) = ExpectedSource(c).env
        /\ FailedWith(c, "EnvLoadingError") =>
               /\ ExpectedSource(c).kind = "fail"
               /\ ExpectedSource(c).name \in SeqRange(exit[c].error.message)
        /\ exit[c].tag = "Success" =>
               /\ Loaded(c).raw = ExpectedSource(c).env
               /\ Loaded(c).mode = (IF ExpectedIsServer(c) THEN "server" ELSE "client")
        /\ IsPrefixError(exit[c]) =>
               exit[c].error.mode = (IF ExpectedIsServer(c) THEN "server" ELSE "client")

\* One call ran in client mode on its own source, over a service configured
\* for server mode with a default source; the other call, made without
\* options, got the service's mode and the service's source.
C11_Witness ==
    \E c, d \in Calls :
        /\ c # d
        /\ ConfigGivesSource
        /\ Get(envConfig).isServer = Some(TRUE)
        /\ CallGivesSource(c)
        /\ exit[c].tag = "Success" /\ Loaded(c).mode = "client"
        /\ Loaded(c).raw[KeyP] = Some("stub")
        /\ callOptions[d] = None
        /\ exit[d].tag = "Success" /\ Loaded(d).mode = "server"
        /\ Loaded(d).raw[KeyP] = Some("config")

\* Call c ran to its end without being cancelled.
Completed(c) == pc[c] = "done" /\ exit[c].tag # "Interrupt"

\* C13: in every interleaving of the calls, no step alters the service
\* configuration, and a call that ends, ends with the result or error that
\* load() gives for its own options when it runs alone.
C13_Independent ==
    [][ /\ envConfig' = envConfig
        /\ \A c \in Calls :
               (pc'[c] = "done" /\ exit'[c].tag # "Interrupt") =>
                   exit'[c] = load(Get(envConfig), processEnv, callOptions'[c]) ]_vars

\* Two calls with different overrides are in flight together, each past its
\* enforcement with a meta of its own.
C13_Witness ==
    \E c, d \in Calls :
        /\ pc[c] = "building" /\ pc[d] = "building"
        /\ optionsMetaOverride(callOptions[c]) # None
        /\ optionsMetaOverride(callOptions[d]) = None
        /\ callMeta[c] # callMeta[d]
        /\ ExpectedIsServer(c) # ExpectedIsServer(d)

\* C14: two calls of load() made with identical options, against sources
\* that return the same raw environment each time, end with equal results
\* or equal errors.
C14_LoadIdempotent ==
    \A c, d \in Calls :
        (Completed(c) /\ Completed(d) /\ callOptions[c] = callOptions[d]) =>
            exit[c] = exit[d]

\* Two calls with the same options, a meta override among them, both
\* succeeded.
C14_Witness ==
    \E c, d \in Calls :
        /\ c # d
        /\ callOptions[c] = callOptions[d]
        /\ optionsMetaOverride(callOptions[c]) # None
        /\ exit[c].tag = "Success" /\ exit[d].tag = "Success"

\* C15: a cancelled call shows its caller no result; until a call has ended
\* nothing is visible; a result is visible only after all four stages ran,
\* and it is the complete one: the merged meta, a validation whose two
\* subsets are both frozen, and the env of the mode.
C15_AllOrNothing ==
    \A c \in Calls :
        /\ pc[c] # "done" => exit[c] = NoExit
        /\ exit[c].tag = "Interrupt" => DOMAIN exit[c] = {"tag"}
        /\ exit[c].tag = "Success" =>
               /\ trace[c] = StageOrder
               /\ DOMAIN Loaded(c) = {"mode", "raw", "validation", "meta", "env"}
               /\ Loaded(c).meta = Overlaid(Get(envConfig).validation.compiled.meta,
                                            optionsMetaOverride(callOptions[c]))
               /\ Loaded(c).validation.frozen = {"server", "client"}

\* A call was cancelled after its validation result was frozen and before
\* enforcement, under a meta override.
C15_Witness ==
    \E c \in Calls :
        /\ exit[c].tag = "Interrupt"
        /\ trace[c] = <<"load", "validate">>
        /\ validation[c] # None
        /\ optionsMetaOverride(callOptions[c]) # None

\* The fields of the schema given to validate that the source does not hold.
Omitted ==
    { k \in SeqRange(Get(valInput).schema) : k \notin DOMAIN Get(valInput).source }

\* The fields of the schema that the source holds with the value undefined.
Undefined ==
    { k \in SeqRange(Get(valInput).schema) :
        k \in DOMAIN Get(valInput).source /\ Get(valInput).source[k] = None }

\* The run was asked to escalate a failure to a defect.
Fatal(run) == run.opts # None /\ Get(run.opts).failInProd = Some(TRUE)

\* What a failed run carries: the error of a failure, the defect of a die.
Payload(x) == IF x.tag = "Die" THEN x.defect ELSE x.error

\* C16 as claimed: when the source lacks exactly the required keys K and all
\* its other fields are valid, validate fails with a ValidationError whose
\* missing list holds every key of K and nothing else, and whose invalid
\* list is empty.
C16_MissingSetEqual ==
    valInput # None =>
        \A i \in 1..Len(valRuns) :
            (Omitted # {} /\ Undefined = {} /\ ~Fatal(valRuns[i])) =>
                /\ valRuns[i].exit.tag = "Failure"
                /\ valRuns[i].exit.error._tag = "ValidationError"
                /\ SeqRange(valRuns[i].exit.error.missing) = Omitted
                /\ valRuns[i].exit.error.invalid = <<>>

\* The keys of the issues of a ValidationError of the validation service.
IssueKeys(error) == [ i \in 1..Len(error.issues) |-> error.issues[i].key ]

NoDuplicates(seq) == \A i, j \in 1..Len(seq) : i # j => seq[i] # seq[j]

\* C17 as claimed: in every ValidationError each failing key has one entry
\* and one classification: the issues of the validation service name no key
\* twice, and the missing and invalid lists of validate share no key and
\* repeat none.
C17_OneEntryPerKey ==
    /\ \A c \in Calls :
           FailedWith(c, "ValidationError") => NoDuplicates(IssueKeys(exit[c].error))
    /\ \A i \in 1..Len(valRuns) :
           valRuns[i].exit.tag # "Success" =>
               LET error == Payload(valRuns[i].exit)
                   invalidKeys == [ n \in 1..Len(error.invalid) |-> error.invalid[n].key ]
               IN  /\ NoDuplicates(error.missing \o invalidKeys)

\* The entries of the raw environment that hold a string.
Present(r) == { k \in DOMAIN r : r[k] # None }

\* The compiled program call c decodes with.
CompiledOf(c) ==
    chooseCompiled(Get(envConfig).validation, optionsValidation(callOptions[c]))

\* The keys that program reads.
ReadsOf(c) ==
    SeqRange(CompiledOf(c).program.server) \cup SeqRange(CompiledOf(c).program.client)

\* Call c went through its validation stage.
Validated(c) == Len(trace[c]) >= 2

\* C18: the outcome of validation depends on the entries of the raw
\* environment that hold a string and on nothing else, so a key held with
\* undefined counts as a key left out: when every key the program reads
\* holds a string the decoded subsets carry those strings, and otherwise the
\* call fails with a ValidationError naming exactly the keys read that hold
\* no string; an undefined value is never decoded.
C18_AbsentNotDecoded ==
    \A c \in Calls :
        Validated(c) =>
            IF ReadsOf(c) \subseteq Present(Get(raw[c]))
            THEN /\ validation[c] # None
                 /\ \A k \in DOMAIN Get(validation[c]).server :
                        Some(Get(validation[c]).server[k]) = Get(raw[c])[k]
                 /\ \A k \in DOMAIN Get(validation[c]).client :
                        Some(Get(validation[c]).client[k]) = Get(raw[c])[k]
            ELSE /\ validation[c] = None
                 /\ FailedWith(c, "ValidationError")
                 /\ SeqRange(IssueKeys(exit[c].error)) = ReadsOf(c) \ Present(Get(raw[c]))

\* A call whose raw environment holds S with the value undefined failed
\* with a ValidationError naming S.
C18_Witness ==
    \E c \in Calls :
        /\ Validated(c)
        /\ KeyS \in DOMAIN Get(raw[c])
        /\ Get(raw[c])[KeyS] = None
        /\ FailedWith(c, "ValidationError")
        /\ KeyS \in SeqRange(IssueKeys(exit[c].error))

\* C19: when the raw environment satisfies the program, validation succeeds
\* with a server and a client record that are both frozen and hold exactly
\* the fields the program decoded, with their decoded values; the raw
\* environment is still the one the source returned.
C19_FrozenSubsets ==
    \A c \in Calls :
        /\ (Validated(c) /\ ReadsOf(c) \subseteq Present(Get(raw[c]))) => validation[c] # None
        /\ validation[c] # None =>
               LET v == Get(validation[c])
                   program == CompiledOf(c).program
               IN  /\ v.frozen = {"server", "client"}
                   /\ v.server = [ k \in SeqRange(program.server) |-> Get(Get(raw[c])[k]) ]
                   /\ v.client = [ k \in SeqRange(program.client) |-> Get(Get(raw[c])[k]) ]
                   /\ DOMAIN v.server \cup DOMAIN v.client = ReadsOf(c)
        /\ raw[c] # None => Get(raw[c]) = ExpectedSource(c).env

\* Validation succeeded with a non-empty server and a non-empty client
\* subset on a raw environment read from a source given in the call.
C19_Witness ==
    \E c \in Calls :
        /\ validation[c] # None
        /\ CallGivesSource(c)
        /\ DOMAIN Get(validation[c]).server = {KeyS}
        /\ DOMAIN Get(validation[c]).client = {KeyP}

\* C20: validate succeeds exactly when every field of the schema holds a
\* string, whatever failInProd is; on an invalid source it ends in a defect
\* when failInProd is true and in a failure when it is false or unset; the
\* payload is a ValidationError in both cases, and all runs on the same
\* schema and source carry the same one: same missing, invalid and report.
C20_SeverityKnob ==
    valInput # None =>
        \A i \in 1..Len(valRuns) :
            IF Omitted = {} /\ Undefined = {}
            THEN valRuns[i].exit.tag = "Success"
            ELSE /\ valRuns[i].exit.tag = (IF Fatal(valRuns[i]) THEN "Die" ELSE "Failure")
                 /\ Payload(valRuns[i].exit)._tag = "ValidationError"
                 /\ DOMAIN Payload(valRuns[i].exit) = {"_tag", "missing", "invalid", "report"}
                 /\ Len(Lines(Payload(valRuns[i].exit).report)) =
                        2 + Len(Payload(valRuns[i].exit).missing)
                        + Len(Payload(valRuns[i].exit).invalid)
                 /\ \A j \in 1..Len(valRuns) :
                        Payload(valRuns[j].exit) = Payload(valRuns[i].exit)

\* The same failing source was validated once with failInProd true and once
\* without opts: a defect and a failure, with a non-empty report.
C20_Witness ==
    /\ valInput # None
    /\ Len(valRuns) = 2
    /\ valRuns[1].exit.tag = "Die"
    /\ valRuns[2].opts = None
    /\ valRuns[2].exit.tag = "Failure"
    /\ Len(Lines(valRuns[2].exit.error.report)) > 2

\* ------------------------------------------------------------------------
\* The report table

\* The cells of a row of the table
Cells(line) == Split(line, <<" ", "|", " ">>)

\* Of the lines of a report of the error: the line of the i-th missing key,
\* and of the i-th invalid entry.
MissingLine(lines, error, i) == lines[2 + i]
InvalidLine(lines, error, i) == lines[2 + Len(error.missing) + i]

RowCount(error) == 2 + Len(error.missing) + Len(error.invalid)

\* C21: in the text formatValidationReport returns, the Details cell of the
\* row of every invalid entry is the message itself when it has at most 30
\* characters and otherwise its first 30 characters followed by "..."; the
\* entry of the error keeps the whole message.
C21_Truncation ==
    repError # None =>
        \A r \in 1..Len(repRuns) :
            LET error == Get(repError)
                lines == Lines(repRuns[r])
            IN  /\ Len(lines) = RowCount(error)
                /\ \A i \in 1..Len(error.invalid) :
                       LET message == error.invalid[i].message
                           cells   == Cells(InvalidLine(lines, error, i))
                       IN  /\ Len(cells) = 3
                           /\ Len(message) <= 30 => cells[3] = message
                           /\ Len(message) > 30 =>
                                  /\ Len(cells[3]) = 33
                                  /\ SubSeq(cells[3], 1, 30) = SubSeq(message, 1, 30)
                                  /\ SubSeq(cells[3], 31, 33) = <<".", ".", ".">>
                           /\ message \in ReportMessages

\* A report was made of an error holding a message of 30 characters and one
\* of 31.
C21_Witness ==
    /\ repError # None
    /\ Len(repRuns) >= 1
    /\ \E i, j \in 1..Len(Get(repError).invalid) :
           /\ Len(Get(repError).invalid[i].message) = 30
           /\ Len(Get(repError).invalid[j].message) = 31

\* C22: in every data row of the report the key column is 10 characters
\* wide, a shorter key padded and a longer key cut to 10, while the missing
\* and invalid arrays keep the whole keys.
C22_KeyColumnWidth ==
    repError # None =>
        \A r \in 1..Len(repRuns) :
            LET error == Get(repError)
                Column(key) == IF Len(key) > 10 THEN SubSeq(key, 1, 10)
                               ELSE key \o [ n \in 1..(10 - Len(key)) |-> " " ]
                lines == Lines(repRuns[r])
            IN  /\ Len(lines) = RowCount(error)
                /\ \A i \in 1..Len(error.missing) :
                       /\ Cells(MissingLine(lines, error, i))[1] = Column(error.missing[i])
                       /\ error.missing[i] \in ReportKeys
                /\ \A i \in 1..Len(error.invalid) :
                       /\ Cells(InvalidLine(lines, error, i))[1] = Column(error.invalid[i].key)
                       /\ error.invalid[i].key \in ReportKeys

\* C23: the report is the header line, the separator line, a row for each
\* missing key in the order of the missing list with the status missing and
\* the details "required but not provided", then a row for each invalid
\* entry in the order of the invalid list: 2 + |missing| + |invalid| lines,
\* and every call on the same error returns the same text.
C23_StableRows ==
    repError # None =>
        \A r \in 1..Len(repRuns) :
            LET error == Get(repError)
                lines == Lines(repRuns[r])
            IN  /\ Len(lines) = RowCount(error)
                /\ lines[1] = HeaderLine
                /\ lines[2] = SeparatorLine
                /\ \A i \in 1..Len(error.missing) :
                       LET cells == Cells(MissingLine(lines, error, i))
                       IN  /\ Len(cells) = 3
                           /\ Trim(cells[1]) = error.missing[i]
                           /\ Trim(cells[2]) = <<"m", "i", "s", "s", "i", "n", "g">>
                           /\ cells[3] = TextRequiredNotProvided
                /\ \A i \in 1..Len(error.invalid) :
                       LET cells == Cells(InvalidLine(lines, error, i))
                       IN  /\ Len(cells) = 3
                           /\ Trim(cells[1]) = error.invalid[i].key
                           /\ Trim(cells[2]) = <<"i", "n", "v", "a", "l", "i", "d">>
                /\ \A q \in 1..Len(repRuns) : repRuns[q] = repRuns[r]

\* Two reports were made of an error with two different missing keys and an
\* invalid entry.
C23_Witness ==
    /\ repError # None
    /\ Len(repRuns) >= 2
    /\ Len(Get(repError).missing) = 2
    /\ Get(repError).missing[1] # Get(repError).missing[2]
    /\ Len(Get(repError).invalid) >= 1

\* ------------------------------------------------------------------------
\* The accessors

\* What the parsed record holds under a key
Held(key) ==
    IF key \in DOMAIN Get(envParsed) THEN Get(envParsed)[key] ELSE [ type |-> "undefined" ]

Nullish(value) == value.type \in {"undefined", "null"}

\* C24: get always succeeds, and for a key of the schema it returns the value
\* the parsed record holds under the key as it is, undefined when the field
\* was not provided; require fails exactly when the value get returns for
\* the key is undefined or null, the failure is a MissingVarError naming the
\* key, and otherwise require succeeds with the same value get returns.
C24_GetVersusRequire ==
    envParsed # None =>
        \A i \in 1..Len(accessed) :
            LET call == accessed[i]
            IN  /\ call.method = "get" =>
                       /\ call.exit.tag = "Success"
                       /\ call.key \in ParsedKeys => call.exit.value = Held(call.key)
                /\ call.method = "require" =>
                       /\ call.exit.tag \in {"Success", "Failure"}
                       /\ call.exit.tag = "Failure" =>
                              /\ call.exit.error._tag = "MissingVarError"
                              /\ call.exit.error.message[2] = call.key
                       /\ call.key \in ParsedKeys =>
                              /\ call.exit.tag = "Failure" <=> Nullish(Held(call.key))
                              /\ call.exit.tag = "Success" => call.exit.value = Held(call.key)
                       /\ \A j \in 1..Len(accessed) :
                              (accessed[j].method = "get" /\ accessed[j].key = call.key) =>
                                  /\ call.exit.tag = "Failure" <=> Nullish(accessed[j].exit.value)
                                  /\ call.exit.tag = "Success" => call.exit = accessed[j].exit

\* get returned undefined for an optional field that was not provided, and
\* require then refused the same key.
C24_Witness ==
    /\ envParsed # None
    /\ Len(accessed) = 2
    /\ accessed[1].method = "get"
    /\ accessed[1].key \in ParsedKeys
    /\ accessed[1].key \notin DOMAIN Get(envParsed)
    /\ accessed[1].exit.value.type = "undefined"
    /\ accessed[2].method = "require"
    /\ accessed[2].key = accessed[1].key
    /\ accessed[2].exit.tag = "Failure"

\* ------------------------------------------------------------------------
\* Redaction

\* The substrings that mark a key as secret by default
DefaultSubstrings ==
    { <<"k", "e", "y">>,
      <<"t", "o", "k", "e", "n">>,
      <<"s", "e", "c", "r", "e", "t">>,
      <<"p", "a", "s", "s", "w", "o", "r", "d">>,
      <<"p", "w", "d">>,
      <<"p", "r", "i", "v", "a", "t", "e">>,
      <<"b", "e", "a", "r", "e", "r">>,
      <<"a", "p", "i">>,
      <<"a", "u", "t", "h">> }

\* The key holds the substring, whatever the case of either
HoldsIgnoringCase(key, part) == Includes(toLowerCase(key), toLowerCase(part))

\* The key matches the extra matcher: it holds the string, or the expression
\* matches it
MatchesExtra(key, matcher) ==
    IF matcher.kind = "string" THEN HoldsIgnoringCase(key, matcher.text)
    ELSE \E i \in 0..(Len(key) - Len(matcher.literal)) :
             /\ SubSeq(key, i + 1, i + Len(matcher.literal)) = matcher.literal
             /\ matcher.anchored => i = 0

IsSecret(key) ==
    \/ \E part \in DefaultSubstrings : HoldsIgnoringCase(key, part)
    \/ \E n \in 1..Len(extraOf(redOpts)) : MatchesExtra(key, extraOf(redOpts)[n])

\* C25: redact returns a record with the keys of its input, holding "***"
\* under every key that contains one of the default substrings in any case or
\* matches one of opts.extra, and the input's value, undefined included, under
\* every other key; the input record is left as it was.
C25_RedactByKey ==
    redInput # None =>
        \A r \in 1..Len(redRuns) :
            /\ Get(redInput) \in RedactRecords
            /\ Len(redRuns[r]) = Len(Get(redInput))
            /\ \A i \in 1..Len(redRuns[r]) :
                   /\ redRuns[r][i].key = Get(redInput)[i].key
                   /\ redRuns[r][i].value =
                          IF IsSecret(redRuns[r][i].key) THEN Some(<<"*", "*", "*">>)
                          ELSE Get(redInput)[i].value

\* ------------------------------------------------------------------------
\* The traversal of a failure tree

IsCombinator(node) == node.op \in {"And", "Or"}

\* The addresses of the leaves of a tree: the turns, left or right, taken
\* from the root
RECURSIVE LeafAddresses(_)
LeafAddresses(node) ==
    IF IsCombinator(node)
    THEN { <<"left">> \o a : a \in LeafAddresses(node.left) }
         \cup { <<"right">> \o a : a \in LeafAddresses(node.right) }
    ELSE { <<>> }

RECURSIVE NodeAt(_, _)
NodeAt(node, address) ==
    IF address = <<>> THEN node
    ELSE NodeAt(IF Head(address) = "left" THEN node.left ELSE node.right, Tail(address))

\* Leaf a is met before leaf b going depth-first, left to right: where their
\* addresses first differ, a turns left.
MetBefore(a, b) ==
    \E n \in 1..Len(a) :
        /\ n <= Len(b)
        /\ SubSeq(a, 1, n - 1) = SubSeq(b, 1, n - 1)
        /\ a[n] = "left" /\ b[n] = "right"

\* C26: collectIssues gives one issue for every leaf of the tree and none
\* for an And or an Or, in the order the leaves are met depth-first with the
\* left child before the right; the key of an issue is "<root>" for an empty
\* path and the segments joined with "." otherwise, and its message is the
\* leaf's.
C26_EveryLeafOnce ==
    (treeError # None /\ treeIssues # None) =>
        LET tree   == Get(treeError)
            issues == Get(treeIssues)
            leaves == LeafAddresses(tree)
            Rank(a) == 1 + Cardinality({ b \in leaves : MetBefore(b, a) })
        IN  /\ Len(issues) = Cardinality(leaves)
            /\ \A a \in leaves :
                   LET leaf == NodeAt(tree, a)
                   IN  /\ issues[Rank(a)].message = leaf.message
                       /\ issues[Rank(a)].key =
                              IF leaf.path = <<>> THEN <<"<", "r", "o", "o", "t", ">">>
                              ELSE IF Len(leaf.path) = 1 THEN leaf.path[1]
                              ELSE leaf.path[1] \o <<".">> \o leaf.path[2]

\* The issues were collected from an And over an Or, with a leaf of an empty
\* path on the right of the Or.
C26_Witness ==
    /\ treeError # None
    /\ treeIssues # None
    /\ Get(treeError).op = "And"
    /\ Get(treeError).left.op = "Or"
    /\ Get(treeError).left.right.path = <<>>
    /\ Len(Get(treeIssues)) = 3

\* ------------------------------------------------------------------------
\* The subset enforce reads

\* What a caller sees of an Exit of enforce apart from the returned result:
\* success, or the error with its mode, keys and message
Outcome(x) == IF x.tag = "Failure" THEN x ELSE [ tag |-> x.tag ]

\* C27: two results that hold the same subset of the requested mode get the
\* same outcome from enforce under the same options, success or the same
\* error with the same keys, whatever their other subsets hold.
C27_OtherSubsetUnread ==
    enfTwin # None =>
        /\ requested(Get(enfTwin).result, enfOptions) = requested(enfResult, enfOptions)
        /\ Outcome(Get(enfTwin).exit) = Outcome(enfExit)

\* In server mode a result was refused, and so was a twin of it whose client
\* subset differs.
C27_Witness ==
    /\ enfTwin # None
    /\ enfOptions.isServer
    /\ Get(enfTwin).result.client # enfResult.client
    /\ enfExit.tag = "Failure"
    /\ Get(enfTwin).exit.tag = "Failure"

\* ------------------------------------------------------------------------
\* The meta of a call of load()

\* The meta of the service configuration overlaid by the service override
\* and then by the override of call c
ServiceMeta(c) ==
    Overlaid(Overlaid(Get(envConfig).validation.compiled.meta, Get(envConfig).metaOverride),
             optionsMetaOverride(callOptions[c]))

\* Call c brings a compiled program of its own.
OwnCompiled(c) ==
    /\ optionsValidation(callOptions[c]) # None
    /\ Get(optionsValidation(callOptions[c])).compiled # None

\* C28: the meta load() enforces with and returns as result.meta is the
\* service's compiled meta overlaid by config.metaOverride and then by
\* options.metaOverride; a compiled program the call brings is the one that
\* decodes, and its meta is not used.
C28_MetaFromServiceConfig ==
    \A c \in Calls :
        /\ callMeta[c] # None => callMeta[c] = Some(ServiceMeta(c))
        /\ (pc[c] = "done" /\ exit[c].tag = "Success") =>
               exit[c].value.meta = ServiceMeta(c)
        /\ (validation[c] # None /\ OwnCompiled(c)) =>
               LET own == Get(Get(optionsValidation(callOptions[c])).compiled)
               IN  /\ DOMAIN Get(validation[c]).server = SeqRange(own.program.server)
                   /\ DOMAIN Get(validation[c]).client = SeqRange(own.program.client)

\* A call that brought its own compiled program, with a meta other than the
\* service's, returned the service's meta; the program it brought decoded.
C28_Witness ==
    \E c \in Calls :
        /\ pc[c] = "done"
        /\ exit[c].tag = "Success"
        /\ OwnCompiled(c)
        /\ Get(Get(optionsValidation(callOptions[c])).compiled).meta # exit[c].value.meta
        /\ Get(Get(optionsValidation(callOptions[c])).compiled).program
               # Get(envConfig).validation.compiled.program
        /\ exit[c].value.meta = Get(envConfig).validation.compiled.meta

\* C29: the meta enforce evaluates inside load() is the merged meta overlaid
\* once more by options.metaOverride, and it equals the merged meta that is
\* returned as result.meta; a meta held in config.prefix never takes its
\* place.
C29_EnforcedMetaIsResultMeta ==
    \A c \in Calls :
        enforcedMeta[c] # None =>
            /\ callMeta[c] # None
            /\ Get(enforcedMeta[c]) =
                   Overlaid(Get(callMeta[c]), optionsMetaOverride(callOptions[c]))
            /\ enforcedMeta[c] = callMeta[c]
            /\ (pc[c] = "done" /\ exit[c].tag = "Success") =>
                   exit[c].value.meta = Get(enforcedMeta[c])

\* A call whose override supplies a field that the service override supplies
\* too, with another value, was enforced and returned.
C29_Witness ==
    \E c \in Calls :
        /\ pc[c] = "done"
        /\ exit[c].tag = "Success"
        /\ enforcedMeta[c] # None
        /\ Supplies(optionsMetaOverride(callOptions[c]), "clientPrefix")
        /\ Supplies(Get(envConfig).metaOverride, "clientPrefix")
        /\ Get(Get(optionsMetaOverride(callOptions[c])).clientPrefix)
               # Get(Get(Get(envConfig).metaOverride).clientPrefix)
        /\ Get(enforcedMeta[c]).clientPrefix
               = Get(Get(optionsMetaOverride(callOptions[c])).clientPrefix)

\* ------------------------------------------------------------------------
\* Enforcement inside the layer constructors

\* parseEnv got past the schema: the parsed record was partitioned.
Partitioned == layerPartition # None

\* Both modes pass on the partition parseEnv made, under the partition's own
\* meta, and parseEnv returned the parsed record.
EnforcementPassed ==
    /\ layerExit.tag = "Success"
    /\ layerExit.value = Get(layerParsed)
    /\ enforce([meta |-> Get(layerPartition).meta],
               Get(layerPartition).validationResult,
               [isServer |-> TRUE, metaOverride |-> None]).tag = "Success"
    /\ enforce([meta |-> Get(layerPartition).meta],
               Get(layerPartition).validationResult,
               [isServer |-> FALSE, metaOverride |-> None]).tag = "Success"

\* The layer failed with an EnvError whose message starts with text.
LayerFailedWith(text) ==
    /\ layerExit.tag = "Failure"
    /\ layerExit.error._tag = "EnvError"
    /\ StartsWith(layerExit.error.message, text)

\* C30 as claimed: in the layer constructors the enforcement of server mode
\* and then of client mode, on the partition and under the meta taken from
\* that partition, succeeds for every parsed record and every clientPrefix,
\* and the construction of a layer depends on the schema decoding only: a
\* layer that fails fails with 'Schema validation failed: ...'.
C30_OnlySchemaDecoding ==
    layerPc = "done" =>
        /\ Partitioned => EnforcementPassed
        /\ layerExit.tag = "Failure" =>
               /\ ~Partitioned
               /\ LayerFailedWith(TextSchemaFailed)

\* C30 amended: in parseEnv the enforcement of server mode and then of client
\* mode, on the partition and under the meta taken from that partition,
\* succeeds for every parsed record and every clientPrefix, the empty one
\* and the default included, so no layer fails with 'Prefix enforcement
\* failed'.  A layer that fails fails before any partition is made: with
\* 'Schema validation failed: ...' when the schema does not decode, or, in
\* fromDotenv only and before parseEnv runs, with 'Dotenv config error: ...'
\* when dotenv.config reports an error.
C30_LayerEnforcementPasses ==
    layerPc = "done" =>
        /\ Partitioned => EnforcementPassed
        /\ layerExit.tag = "Failure" =>
               /\ ~Partitioned
               /\ ~LayerFailedWith(TextPrefixFailed)
               /\ IF Get(layerInput).kind = "fromDotenv" /\ Get(layerInput).config.error # None
                  THEN LayerFailedWith(TextDotenvError) /\ layerParsed = None
                  ELSE LayerFailedWith(TextSchemaFailed)

\* parseEnv returned a record that was split into a server part and a client
\* part, both with keys.
C30_Witness ==
    /\ layerPc = "done"
    /\ Partitioned
    /\ layerExit.tag = "Success"
    /\ DOMAIN Get(layerPartition).validationResult.server # {}
    /\ DOMAIN Get(layerPartition).validationResult.client # {}

====
